---- MODULE Spec2Model ----
(***************************************************************************)
(* A model of the conversion engine, the transaction pool and the block    *)
(* assembler of peerfed (a two-currency ledger: cash and bond, convertible *)
(* against each other along the curve cash^2 + bond^2 = K^2).              *)
(*                                                                         *)
(* The specifications that share the module:                               *)
(*   SpecConversion  Consensus::IsValidConversion as a call on a supply    *)
(*   SpecAmount      the amount functions of consensus/conversion.cpp      *)
(*   SpecPool        CTxMemPool: addUnchecked and the removals             *)
(*   SpecFees        CTxMemPool::UpdateNormalizedFees over a pool          *)
(*   SpecAssembler   BlockAssembler::CreateNewBlock over a pool            *)
(*   SpecDrain       CreateNewBlock over a pool of conversions             *)
(*   SpecFloor       CreateNewBlock over a pool of four transactions       *)
(*   SpecNode        the pool and the assembler side by side               *)
(*   SpecCoinbase    CreateNewBlock and the weight of its coinbase         *)
(*   SpecLedger      the pool's calls and the normalized fees              *)
(*   SpecReorg       the pool over a reorganisation                        *)
(*   SpecPriority    PrioritiseTransaction in 64-bit arithmetic            *)
(*   SpecMiner       CreateNewBlock as a thread that is scheduled          *)
(*   SpecSaturation  the updates of an entry's aggregates, in 64 bits      *)
(*   SpecInverse     CalculateInputAmount and CalculateOutputAmount of it  *)
(*   SpecMining      StartMining, StopMining and the miner threads         *)
(* Each one keeps the variables of the others at their idle values.        *)
(***************************************************************************)
EXTENDS Integers, Sequences, FiniteSets, TLC

(***************************************************************************)
(* Amount types (consensus/amount.h).                                      *)
(***************************************************************************)
CASH == 0
BOND == 1
AmountTypes == {CASH, BOND}
Other(t) == 1 - t

\* The largest amount drawn for a supply side, an input or a minimum output.
MaxAmount == 3
Amounts == 0..MaxAmount
\* A CAmounts value: std::array<CAmount, 2> indexed by amount type.
AmountPairs == [AmountTypes -> Amounts]
Pair(c, b) == [t \in AmountTypes |-> IF t = CASH THEN c ELSE b]
ZeroPair == Pair(0, 0)

(***************************************************************************)
(* boost::multiprecision sqrt on int128_t: the integer (floor) square      *)
(* root, by bisection.                                                     *)
(***************************************************************************)
RECURSIVE SqrtBetween(_, _, _)
SqrtBetween(n, lo, hi) ==
    IF lo >= hi THEN lo
    ELSE LET mid == (lo + hi + 1) \div 2
         IN  IF mid * mid <= n THEN SqrtBetween(n, mid, hi)
                               ELSE SqrtBetween(n, lo, mid - 1)
sqrt(n) == SqrtBetween(n, 0, n)

\* cash^2 + bond^2 of a supply (invariant_sq_in).
InvariantSq(supply) == supply[CASH] * supply[CASH] + supply[BOND] * supply[BOND]

\* The supply with the declared minimum outputs added and the inputs taken.
AfterMinOutputs(supply, inputs, minOutputs) ==
    [t \in AmountTypes |-> supply[t] + minOutputs[t] - inputs[t]]

\* invariant_sq_min_out > invariant_sq_in: the early return of IsValidConversion.
ConversionRejected_Strict(supply, inputs, minOutputs) ==
    InvariantSq(AfterMinOutputs(supply, inputs, minOutputs)) >= InvariantSq(supply)
ConversionRejected(supply, inputs, minOutputs) ==
    InvariantSq(AfterMinOutputs(supply, inputs, minOutputs)) > InvariantSq(supply)

\* extraOutput: sqrt(K^2 - (B + dB)^2) - (A + dA) on the remainder type.
ExtraOutput_Ceil(supply, inputs, minOutputs, extraType) ==
    LET after == AfterMinOutputs(supply, inputs, minOutputs)
        rest  == InvariantSq(supply) - after[Other(extraType)] * after[Other(extraType)]
        root  == sqrt(rest)
    IN  (IF root * root = rest THEN root ELSE root + 1) - after[extraType]
ExtraOutput(supply, inputs, minOutputs, extraType) ==
    LET after == AfterMinOutputs(supply, inputs, minOutputs)
    IN  sqrt(InvariantSq(supply) - after[Other(extraType)] * after[Other(extraType)])
          - after[extraType]

(***************************************************************************)
(* Consensus::IsValidConversion(totalSupply&, inputs, minOutputs,          *)
(* extraType, extraOutput&): the value returned and the two reference      *)
(* parameters as the call leaves them.                                     *)
(***************************************************************************)
IsValidConversion_NoRemainder(supply, inputs, minOutputs, extraType, extra) ==
    IF ConversionRejected(supply, inputs, minOutputs)
    THEN [ok |-> FALSE, supply |-> supply, extra |-> extra]
    ELSE [ok |-> TRUE,
          supply |-> AfterMinOutputs(supply, inputs, minOutputs),
          extra |-> ExtraOutput(supply, inputs, minOutputs, extraType)]
IsValidConversion_WritesFirst(supply, inputs, minOutputs, extraType, extra) ==
    IF ConversionRejected(supply, inputs, minOutputs)
    THEN [ok |-> FALSE, supply |-> AfterMinOutputs(supply, inputs, minOutputs), extra |-> 0]
    ELSE LET r == ExtraOutput(supply, inputs, minOutputs, extraType)
             after == AfterMinOutputs(supply, inputs, minOutputs)
         IN  [ok |-> TRUE,
              supply |-> [after EXCEPT ![extraType] = @ + r],
              extra |-> r]
IsValidConversion(supply, inputs, minOutputs, extraType, extra) ==
    IF ConversionRejected(supply, inputs, minOutputs)
    THEN [ok |-> FALSE, supply |-> supply, extra |-> extra]
    ELSE LET r == ExtraOutput(supply, inputs, minOutputs, extraType)
             after == AfterMinOutputs(supply, inputs, minOutputs)
         IN  [ok |-> TRUE,
              supply |-> [after EXCEPT ![extraType] = @ + r],
              extra |-> r]

(***************************************************************************)
(* consensus/conversion.cpp: amounts along the curve and at the marginal   *)
(* rate.                                                                   *)
(***************************************************************************)
CalculateOutputAmount(supply, inputAmount, inputType) ==
    IF inputAmount > supply[inputType] THEN 0
    ELSE LET left == supply[inputType] - inputAmount
         IN  sqrt(InvariantSq(supply) - left * left) - supply[Other(inputType)]

CalculateInputAmount(supply, outputAmount, outputType) ==
    LET grown == supply[outputType] + outputAmount
    IN  IF grown * grown > InvariantSq(supply) THEN 0
        ELSE supply[Other(outputType)] - sqrt(InvariantSq(supply) - grown * grown)

\* Integer division as C++ and boost::multiprecision do it: toward zero.
TruncDiv(a, b) ==
    IF (a >= 0) = (b > 0) THEN (IF a >= 0 THEN a \div b ELSE (-a) \div (-b))
    ELSE -(IF a >= 0 THEN a \div (-b) ELSE (-a) \div b)

GetConvertedAmount(supply, amount, amountType, roundedUp) ==
    IF supply[Other(amountType)] = 0 THEN CalculateOutputAmount(supply, amount, amountType)
    ELSE IF supply[amountType] = 0 THEN CalculateInputAmount(supply, amount, amountType)
    ELSE TruncDiv(amount * supply[amountType], supply[Other(amountType)])
            + (IF roundedUp THEN 1 ELSE 0)

\* SaturatingAdd (util/overflow.h): the sum, clamped to the range of int64_t.
\* No sum the model forms comes near the clamp.
SaturatingAdd(a, b) == a + b

(***************************************************************************)
(* Transactions.  A transaction is named by its place in txid order        *)
(* (1 has the smallest hash).  It spends one output of each of its         *)
(* parents and one confirmed coin; two transactions that name the same     *)
(* coin conflict.                                                          *)
(***************************************************************************)
MaxTx == 3
TxIds == 1..MaxTx

Max(a, b) == IF a >= b THEN a ELSE b
Min(a, b) == IF a <= b THEN a ELSE b
MinOf(S) == CHOOSE x \in S : \A y \in S : x <= y

RECURSIVE FoldSet(_, _, _)
\* for (x : S) acc = Op(acc, x), S walked in txid order (CompareIteratorByHash).
FoldSet(Op(_, _), acc, S) ==
    IF S = {} THEN acc
    ELSE LET x == MinOf(S) IN FoldSet(Op, Op(acc, x), S \ {x})

RECURSIVE FoldSeq(_, _, _)
\* for (x : s) acc = Op(acc, x), s walked front to back.
FoldSeq(Op(_, _), acc, s) ==
    IF s = <<>> THEN acc ELSE FoldSeq(Op, Op(acc, Head(s)), Tail(s))

RECURSIVE Reach(_, _, _)
\* Everything reachable from stage along edge, stage included.
Reach(edge, stage, seen) ==
    IF stage \subseteq seen THEN seen
    ELSE Reach(edge, UNION {edge[i] : i \in stage \ seen}, seen \cup stage)

RECURSIVE SortedSeq(_)
\* The members of a set of txids, in txid order.
SortedSeq(S) == IF S = {} THEN <<>> ELSE <<MinOf(S)>> \o SortedSeq(S \ {MinOf(S)})

Range(s) == {s[k] : k \in DOMAIN s}

\* tx.vin, as prevouts: <<0, c>> is confirmed coin c, <<p, i>> the output of p
\* that i spends.
Vin(tx) == <<(<<0, tx.coin>>)>> \o [k \in 1..Cardinality(tx.parents) |->
                                  <<SortedSeq(tx.parents)[k], tx.id>>]

\* A CTxConversionInfo, or std::nullopt.
NoConversion ==
    [present |-> FALSE, inputs |-> ZeroPair, minOutputs |-> ZeroPair,
     remainderType |-> CASH, nDeadline |-> 0, destination |-> FALSE]

\* GetVirtualTransactionSize(weight, sigop cost, bytes per sigop) (policy/policy.cpp).
nBytesPerSigOp == 20
GetVirtualTransactionSize(nWeight, nSigOpCost, bytes_per_sigop) ==
    (Max(nWeight, nSigOpCost * bytes_per_sigop) + 3) \div 4

(***************************************************************************)
(* CTxMemPoolEntry                                                         *)
(***************************************************************************)
GetTxSize(e) == GetVirtualTransactionSize(e.nTxWeight, e.sigOpCost, nBytesPerSigOp)

CTxMemPoolEntry(tx, normalized_fee, time) ==
    LET size == GetVirtualTransactionSize(tx.nTxWeight, tx.sigOpCost, nBytesPerSigOp)
    IN  [tx |-> tx.id, vin |-> Vin(tx), nFees |-> tx.nFees, nNormalizedFee |-> normalized_fee,
         nTxWeight |-> tx.nTxWeight, nTime |-> time, sigOpCost |-> tx.sigOpCost,
         m_all_modified_fees |-> tx.nFees, m_modified_fee |-> normalized_fee,
         conversionInfo |-> tx.conversionInfo,
         m_parents |-> {}, m_children |-> {},
         nCountWithDescendants |-> 1, nSizeWithDescendants |-> size,
         nModAllFeesWithDescendants |-> tx.nFees,
         nModFeesWithDescendants |-> normalized_fee,
         nCountWithAncestors |-> 1, nSizeWithAncestors |-> size,
         nModAllFeesWithAncestors |-> tx.nFees,
         nModFeesWithAncestors |-> normalized_fee,
         nSigOpCostWithAncestors |-> tx.sigOpCost]

\* A per-currency total in the reference currency, as UpdateNormalizedFee
\* forms it once normalizedBondFee is known.
NormalizedTotal(all, bondFee, normalizedBondFee, supply) ==
    IF all[BOND] > 0
    THEN SaturatingAdd(all[CASH],
             IF all[BOND] = bondFee THEN normalizedBondFee
             ELSE GetConvertedAmount(supply, all[BOND], BOND, FALSE))
    ELSE all[CASH]

UpdateNormalizedFeeWith(e, supply, normalizedBondFee) ==
    [e EXCEPT !.nNormalizedFee = e.nFees[CASH] + normalizedBondFee,
              !.m_modified_fee =
                  NormalizedTotal(e.m_all_modified_fees, e.nFees[BOND],
                                  normalizedBondFee, supply),
              !.nModFeesWithDescendants =
                  NormalizedTotal(e.nModAllFeesWithDescendants, e.nFees[BOND],
                                  normalizedBondFee, supply),
              !.nModFeesWithAncestors =
                  NormalizedTotal(e.nModAllFeesWithAncestors, e.nFees[BOND],
                                  normalizedBondFee, supply)]

UpdateNormalizedFee(e, supply) ==
    IF supply[CASH] = 0 /\ supply[BOND] = 0 THEN e
    ELSE UpdateNormalizedFeeWith(e, supply,
             IF e.nFees[BOND] > 0 THEN GetConvertedAmount(supply, e.nFees[BOND], BOND, FALSE)
                                  ELSE 0)

\* UpdateModifiedFee that leaves the normalized fees as they were.
UpdateModifiedFee_KeepsNormalized(e, fee_diff, supply) ==
    [e EXCEPT !.nModAllFeesWithDescendants[CASH] = SaturatingAdd(@, fee_diff),
              !.nModAllFeesWithAncestors[CASH] = SaturatingAdd(@, fee_diff),
              !.m_all_modified_fees[CASH] = SaturatingAdd(@, fee_diff)]

UpdateModifiedFee(e, fee_diff, supply) ==
    UpdateNormalizedFee(
        [e EXCEPT !.nModAllFeesWithDescendants[CASH] = SaturatingAdd(@, fee_diff),
                  !.nModAllFeesWithAncestors[CASH] = SaturatingAdd(@, fee_diff),
                  !.m_all_modified_fees[CASH] = SaturatingAdd(@, fee_diff)],
        supply)

UpdateDescendantState(e, modifySize, modifyFee, modifyCount, supply) ==
    [UpdateNormalizedFee(
        [e EXCEPT !.nSizeWithDescendants = @ + modifySize,
                  !.nModAllFeesWithDescendants =
                      [t \in AmountTypes |-> SaturatingAdd(@[t], modifyFee[t])]],
        supply)
     EXCEPT !.nCountWithDescendants = @ + modifyCount]

\* The asserts of UpdateDescendantState.
DescendantStateAsserts(e) ==
    e.nSizeWithDescendants > 0 /\ e.nCountWithDescendants > 0

UpdateAncestorState(e, modifySize, modifyFee, modifyCount, modifySigOps, supply) ==
    [UpdateNormalizedFee(
        [e EXCEPT !.nSizeWithAncestors = @ + modifySize,
                  !.nModAllFeesWithAncestors =
                      [t \in AmountTypes |-> SaturatingAdd(@[t], modifyFee[t])]],
        supply)
     EXCEPT !.nCountWithAncestors = @ + modifyCount,
            !.nSigOpCostWithAncestors = @ + modifySigOps]

\* The asserts of UpdateAncestorState.
AncestorStateAsserts(e) ==
    e.nSizeWithAncestors > 0 /\ e.nCountWithAncestors > 0 /\ e.nSigOpCostWithAncestors >= 0

(***************************************************************************)
(* CTxMemPool.  A pool value P is the record of the fields of the class:   *)
(* mapTx (txid -> entry), mapNextTx (prevout -> spender), mapDeltas,       *)
(* totalTxSize, m_total_fees, cachedInnerUsage, nTransactionsUpdated and   *)
(* m_total_supply.  P.erased holds the entries the running call has        *)
(* already erased from mapTx: an iterator to one of them dangles, and a    *)
(* call that goes on through it reads and writes the freed entry.          *)
(* P.danglingUse records that this happened, P.aborted that an assert      *)
(* failed or the process crashed.                                          *)
(***************************************************************************)
Live(P) == DOMAIN P.mapTx

EntryAt(P, it) == IF it \in DOMAIN P.mapTx THEN P.mapTx[it] ELSE P.erased[it]

\* mapTx.modify(it, ...): the entry the iterator points at is replaced by e.
Modify(P, it, e) ==
    IF it \in DOMAIN P.mapTx THEN [P EXCEPT !.mapTx[it] = e]
                             ELSE [P EXCEPT !.erased[it] = e]

\* A function without the keys in gone.
Without(f, gone) == [k \in (DOMAIN f) \ gone |-> f[k]]
\* A function with key k bound to v.
With(f, k, v) == [x \in (DOMAIN f) \cup {k} |-> IF x = k THEN v ELSE f[x]]

\* Memory accounting, in units: one per index node, one per entry, one per
\* parent or child link.
DynamicMemoryUsage(P) == Cardinality(DOMAIN P.mapTx) + P.cachedInnerUsage

UpdateChild(P, entry, child, add) ==
    LET e == EntryAt(P, entry)
    IN  IF add /\ child \notin e.m_children
        THEN [Modify(P, entry, [e EXCEPT !.m_children = @ \cup {child}])
                EXCEPT !.cachedInnerUsage = @ + 1]
        ELSE IF ~add /\ child \in e.m_children
        THEN [Modify(P, entry, [e EXCEPT !.m_children = @ \ {child}])
                EXCEPT !.cachedInnerUsage = @ - 1]
        ELSE P

UpdateParent(P, entry, parent, add) ==
    LET e == EntryAt(P, entry)
    IN  IF add /\ parent \notin e.m_parents
        THEN [Modify(P, entry, [e EXCEPT !.m_parents = @ \cup {parent}])
                EXCEPT !.cachedInnerUsage = @ + 1]
        ELSE IF ~add /\ parent \in e.m_parents
        THEN [Modify(P, entry, [e EXCEPT !.m_parents = @ \ {parent}])
                EXCEPT !.cachedInnerUsage = @ - 1]
        ELSE P

\* mapTx.modify(it, UpdateDescendantState(...)), with its asserts.
ModifyDescendantState(P, it, modifySize, modifyFee, modifyCount) ==
    LET e == UpdateDescendantState(EntryAt(P, it), modifySize, modifyFee, modifyCount,
                                   P.m_total_supply)
    IN  [Modify(P, it, e) EXCEPT !.aborted = @ \/ ~DescendantStateAsserts(e)]

\* mapTx.modify(it, UpdateAncestorState(...)), with its asserts.
ModifyAncestorState(P, it, modifySize, modifyFee, modifyCount, modifySigOps) ==
    LET e == UpdateAncestorState(EntryAt(P, it), modifySize, modifyFee, modifyCount,
                                 modifySigOps, P.m_total_supply)
    IN  [Modify(P, it, e) EXCEPT !.aborted = @ \/ ~AncestorStateAsserts(e)]

RECURSIVE CalculateDescendantsLoop(_, _, _, _)
CalculateDescendantsLoop(P, stage, setDescendants, excluded) ==
    IF stage = {} THEN setDescendants
    ELSE LET it == MinOf(stage)
         IN  IF it \in excluded
             THEN CalculateDescendantsLoop(P, stage \ {it}, setDescendants, excluded)
             ELSE LET found == setDescendants \cup {it}
                  IN  CalculateDescendantsLoop(P,
                          (stage \ {it}) \cup (EntryAt(P, it).m_children \ found),
                          found, excluded)

\* CalculateDescendants(entryit, setDescendants, check_invalid_conversion):
\* excluded is the set of entries the predicate holds for ({} for no predicate).
CalculateDescendants(P, entryit, setDescendants, excluded) ==
    CalculateDescendantsLoop(P,
        IF entryit \in setDescendants THEN {} ELSE {entryit}, setDescendants, excluded)

\* The descendants of the entries of roots, the roots included.
DescendantsOfAll(P, roots) ==
    FoldSet(LAMBDA S, it : CalculateDescendants(P, it, S, {}), {}, roots)

\* A uint64_t limit; nNoLimit is numeric_limits<uint64_t>::max(), which no
\* size or count exceeds.
Limit(v) == [limited |-> TRUE, value |-> v]
nNoLimit == [limited |-> FALSE, value |-> 0]
NoLimits == [ancestorCount |-> nNoLimit, ancestorSize |-> nNoLimit,
             descendantCount |-> nNoLimit, descendantSize |-> nNoLimit]
Exceeds(x, limit) == limit.limited /\ x > limit.value

RECURSIVE CalculateAncestorsLoop(_, _, _, _, _, _, _)
CalculateAncestorsLoop(P, entry_size, entry_count, setAncestors, staged, total, limits) ==
    IF staged = {} THEN [ok |-> TRUE, setAncestors |-> setAncestors]
    ELSE LET stageit == MinOf(staged)
             stage == EntryAt(P, stageit)
             ancestors == setAncestors \cup {stageit}
             totalSizeWithAncestors == total + GetTxSize(stage)
             restaged == (staged \ {stageit}) \cup (stage.m_parents \ ancestors)
         IN  IF \/ Exceeds(stage.nSizeWithDescendants + entry_size, limits.descendantSize)
                \/ Exceeds(stage.nCountWithDescendants + entry_count, limits.descendantCount)
                \/ Exceeds(totalSizeWithAncestors, limits.ancestorSize)
             THEN [ok |-> FALSE, setAncestors |-> ancestors]
             ELSE IF /\ stage.m_parents # {}
                     /\ Exceeds(Cardinality(restaged) + Cardinality(ancestors) + entry_count,
                                limits.ancestorCount)
             THEN [ok |-> FALSE, setAncestors |-> ancestors]
             ELSE CalculateAncestorsLoop(P, entry_size, entry_count, ancestors, restaged,
                                         totalSizeWithAncestors, limits)

CalculateAncestorsAndCheckLimits(P, entry_size, entry_count, staged_ancestors, limits) ==
    CalculateAncestorsLoop(P, entry_size, entry_count, {}, staged_ancestors, entry_size, limits)

\* CalculateMemPoolAncestors without its limit checks.
CalculateMemPoolAncestors_Unlimited(P, it, vinHashes, entry_size, limits, fSearchForParents) ==
    CalculateAncestorsAndCheckLimits(P, entry_size, 1,
        IF fSearchForParents THEN vinHashes \cap DOMAIN P.mapTx ELSE EntryAt(P, it).m_parents,
        NoLimits)

\* CalculateMemPoolAncestors(entry, setAncestors, limits..., fSearchForParents):
\* entry is given by its txid, the txids its inputs name and its size.
CalculateMemPoolAncestors(P, it, vinHashes, entry_size, limits, fSearchForParents) ==
    IF fSearchForParents
    THEN LET staged_ancestors == vinHashes \cap DOMAIN P.mapTx
         IN  IF /\ staged_ancestors # {}
                /\ Exceeds(Cardinality(staged_ancestors) + 1, limits.ancestorCount)
             THEN [ok |-> FALSE, setAncestors |-> {}]
             ELSE CalculateAncestorsAndCheckLimits(P, entry_size, 1, staged_ancestors, limits)
    ELSE CalculateAncestorsAndCheckLimits(P, entry_size, 1,
                                          EntryAt(P, it).m_parents, limits)

\* UpdateAncestorsOf that updates the links of the parents and leaves the
\* descendant state of the ancestors alone when an entry goes.
UpdateAncestorsOf_LinksOnlyOnRemoval(P, add, it, setAncestors) ==
    LET e == EntryAt(P, it)
        updateFees == [t \in AmountTypes |-> e.m_all_modified_fees[t]]
        linked == FoldSet(LAMBDA Q, parent : UpdateChild(Q, parent, it, add), P, e.m_parents)
    IN  IF ~add THEN linked
        ELSE FoldSet(LAMBDA Q, ancestorIt :
                         ModifyDescendantState(Q, ancestorIt, GetTxSize(e), updateFees, 1),
                     linked, setAncestors)

UpdateAncestorsOf(P, add, it, setAncestors) ==
    LET e == EntryAt(P, it)
        updateCount == IF add THEN 1 ELSE -1
        updateSize == updateCount * GetTxSize(e)
        updateFees == [t \in AmountTypes |-> updateCount * e.m_all_modified_fees[t]]
        linked == FoldSet(LAMBDA Q, parent : UpdateChild(Q, parent, it, add), P, e.m_parents)
    IN  FoldSet(LAMBDA Q, ancestorIt :
                    ModifyDescendantState(Q, ancestorIt, updateSize, updateFees, updateCount),
                linked, setAncestors)

UpdateEntryForAncestors(P, it, setAncestors) ==
    LET updateSize == FoldSet(LAMBDA s, a : s + GetTxSize(EntryAt(P, a)), 0, setAncestors)
        updateFees == [t \in AmountTypes |->
            FoldSet(LAMBDA s, a : s + EntryAt(P, a).m_all_modified_fees[t], 0, setAncestors)]
        updateSigOpsCost == FoldSet(LAMBDA s, a : s + EntryAt(P, a).sigOpCost, 0, setAncestors)
    IN  ModifyAncestorState(P, it, updateSize, updateFees, Cardinality(setAncestors),
                            updateSigOpsCost)

UpdateChildrenForRemoval(P, it) ==
    FoldSet(LAMBDA Q, updateIt : UpdateParent(Q, updateIt, it, FALSE),
            P, EntryAt(P, it).m_children)

UpdateForRemoveFromMempool(P, entriesToRemove, updateDescendants) ==
    LET updated ==
            IF ~updateDescendants THEN P
            ELSE FoldSet(LAMBDA Q, removeIt :
                     LET e == EntryAt(Q, removeIt)
                         setDescendants ==
                             CalculateDescendants(Q, removeIt, {}, {}) \ {removeIt}
                     IN  FoldSet(LAMBDA R, dit :
                                     ModifyAncestorState(R, dit, -GetTxSize(e),
                                         [t \in AmountTypes |-> -e.m_all_modified_fees[t]],
                                         -1, -e.sigOpCost),
                                 Q, setDescendants),
                     P, entriesToRemove)
        unlinked ==
            FoldSet(LAMBDA Q, removeIt :
                        UpdateAncestorsOf(Q, FALSE, removeIt,
                            CalculateMemPoolAncestors(Q, removeIt, {},
                                GetTxSize(EntryAt(Q, removeIt)), NoLimits, FALSE).setAncestors),
                    updated, entriesToRemove)
    IN  FoldSet(LAMBDA Q, removeIt : UpdateChildrenForRemoval(Q, removeIt),
                unlinked, entriesToRemove)

\* removeUnchecked(it, reason).  Called through a dangling iterator, it reads
\* the freed entry, takes its size and fees off the totals again and bumps the
\* counter; mapTx has nothing left to erase.
removeUnchecked(P, it) ==
    LET e == EntryAt(P, it)
    IN  [P EXCEPT !.mapNextTx = Without(@, Range(e.vin)),
                  !.totalTxSize = @ - GetTxSize(e),
                  !.m_total_fees = [t \in AmountTypes |-> @[t] - e.nFees[t]],
                  !.cachedInnerUsage =
                      @ - 1 - (Cardinality(e.m_parents) + Cardinality(e.m_children)),
                  !.mapTx = Without(@, {it}),
                  !.erased = With(@, it, e),
                  !.danglingUse = @ \/ it \notin DOMAIN P.mapTx,
                  !.nTransactionsUpdated = @ + 1]

RemoveStaged_KeepsDescendants(P, stage, updateDescendants) ==
    FoldSet(LAMBDA Q, it : removeUnchecked(Q, it),
            UpdateForRemoveFromMempool(P, stage, FALSE), stage)
RemoveStaged(P, stage, updateDescendants) ==
    FoldSet(LAMBDA Q, it : removeUnchecked(Q, it),
            UpdateForRemoveFromMempool(P, stage, updateDescendants), stage)

\* The normalized fee validation hands to the entry's constructor: the cash fee
\* plus the bond fee converted at the supply of the tip.
AdmissionNormalizedFee(tx, supply) ==
    tx.nFees[CASH]
      + (IF tx.nFees[BOND] > 0 THEN GetConvertedAmount(supply, tx.nFees[BOND], BOND, FALSE)
                               ELSE 0)

\* addUnchecked(entry, setAncestors, validFeeEstimate)
addUnchecked(P, tx, entry, setAncestors) ==
    LET newit == tx.id
        delta == IF newit \in DOMAIN P.mapDeltas THEN P.mapDeltas[newit] ELSE 0
        inserted == [P EXCEPT
            !.mapTx = With(@, newit,
                           IF delta # 0 THEN UpdateModifiedFee(entry, delta, P.m_total_supply)
                                        ELSE entry),
            !.cachedInnerUsage = @ + 1,
            !.mapNextTx = [o \in (DOMAIN @) \cup Range(entry.vin) |->
                              IF o \in DOMAIN @ THEN @[o] ELSE newit]]
        parented == FoldSet(LAMBDA Q, pit : UpdateParent(Q, newit, pit, TRUE),
                            inserted, tx.parents \cap DOMAIN P.mapTx)
        counted == UpdateEntryForAncestors(
                       UpdateAncestorsOf(parented, TRUE, newit, setAncestors),
                       newit, setAncestors)
    IN  [counted EXCEPT !.nTransactionsUpdated = @ + 1,
                        !.totalTxSize = @ + GetTxSize(entry),
                        !.m_total_fees = [t \in AmountTypes |-> @[t] + entry.nFees[t]]]

\* addUnchecked(entry, validFeeEstimate): the ancestors are computed here.
addUncheckedEntry(P, tx, entry) ==
    addUnchecked(P, tx, entry,
        CalculateMemPoolAncestors(P, tx.id, tx.parents, GetTxSize(entry), NoLimits,
                                  TRUE).setAncestors)

ClearPrioritisation(P, hash) == [P EXCEPT !.mapDeltas = Without(@, {hash})]

\* removeRecursive(origTx, reason)
removeRecursive_OnlyPresent(P, origTx) ==
    IF origTx \in DOMAIN P.mapTx
    THEN RemoveStaged(P, DescendantsOfAll(P, {origTx}), FALSE)
    ELSE P
removeRecursive(P, origTx) ==
    LET txToRemove ==
            IF origTx \in DOMAIN P.mapTx THEN {origTx}
            ELSE {P.mapNextTx[o] : o \in {<<origTx, k>> : k \in TxIds} \cap DOMAIN P.mapNextTx}
        setAllRemoves == DescendantsOfAll(P, txToRemove)
    IN  RemoveStaged([P EXCEPT !.aborted = @ \/ ~(txToRemove \subseteq DOMAIN P.mapTx)],
                     setAllRemoves, FALSE)

\* removeConflicts(tx): vin is tx.vin.
removeConflicts(P, tx, vin) ==
    FoldSeq(LAMBDA Q, prevout :
                IF prevout \in DOMAIN Q.mapNextTx /\ Q.mapNextTx[prevout] # tx
                THEN removeRecursive(ClearPrioritisation(Q, Q.mapNextTx[prevout]),
                                     Q.mapNextTx[prevout])
                ELSE Q,
            P, vin)

\* UpdateNormalizedFees that leaves one entry of the view out.
UpdateNormalizedFees_LeavesOneOut(P, supply) ==
    [P EXCEPT !.m_total_supply = supply,
              !.mapTx = [it \in DOMAIN @ |->
                            IF it = MinOf(DOMAIN @) THEN @[it]
                            ELSE UpdateNormalizedFee(@[it], supply)]]

UpdateNormalizedFees(P, supply) ==
    [P EXCEPT !.m_total_supply = supply,
              !.mapTx = [it \in DOMAIN @ |-> UpdateNormalizedFee(@[it], supply)]]

\* The loop of removeForBlock over the block's transactions.
removeForBlockTxs(P, vtx) ==
    FoldSeq(LAMBDA Q, tx :
                ClearPrioritisation(
                    removeConflicts(
                        IF tx.id \in DOMAIN Q.mapTx THEN RemoveStaged(Q, {tx.id}, TRUE) ELSE Q,
                        tx.id, Vin(tx)),
                    tx.id),
            P, vtx)

\* removeForBlockRest that removes the expired entries only.
removeForBlockRest_ExpiredOnly(Q, totalSupply, check_expired, check_invalid_conversion) ==
    UpdateNormalizedFees(
        RemoveStaged(Q,
            DescendantsOfAll(Q, {it \in DOMAIN Q.mapTx : it \in check_expired}),
            FALSE),
        totalSupply)

\* removeForBlock once the block's transactions are out of the pool Q: the
\* entries the predicates hold for go with their descendants, and the fees are
\* normalized at the new supply.
removeForBlockRest(Q, totalSupply, check_expired, check_invalid_conversion) ==
    UpdateNormalizedFees(
        RemoveStaged(
            RemoveStaged(Q,
                DescendantsOfAll(Q, {it \in DOMAIN Q.mapTx : it \in check_expired}),
                FALSE),
            DescendantsOfAll(Q, {it \in DOMAIN Q.mapTx :
                                    it \notin check_expired /\ it \in check_invalid_conversion}),
            FALSE),
        totalSupply)

\* removeForBlock(vtx, nBlockHeight, totalSupply, check_expired,
\* check_invalid_conversion): the predicates are given as the sets of entries
\* they hold for.  (The fee estimator and the rolling minimum fee are no part
\* of P.)
removeForBlock(P, vtx, totalSupply, check_expired, check_invalid_conversion) ==
    removeForBlockRest(removeForBlockTxs(P, vtx), totalSupply, check_expired,
                       check_invalid_conversion)

\* Expire(time)
Expire(P, time) ==
    RemoveStaged(P, DescendantsOfAll(P, {it \in DOMAIN P.mapTx : P.mapTx[it].nTime < time}),
                 FALSE)

(***************************************************************************)
(* The descendant_score index of mapTx (txmempool.h): entries in ascending *)
(* order of max(own feerate, feerate with descendants), the later entry    *)
(* first among equal feerates.                                             *)
(***************************************************************************)
GetModFeeAndSize(a) ==
    LET f1 == a.m_modified_fee * a.nSizeWithDescendants
        f2 == a.nModFeesWithDescendants * GetTxSize(a)
    IN  IF f2 > f1 THEN [fee |-> a.nModFeesWithDescendants, size |-> a.nSizeWithDescendants]
                   ELSE [fee |-> a.m_modified_fee, size |-> GetTxSize(a)]

CompareTxMemPoolEntryByDescendantScore(a, b) ==
    LET ma == GetModFeeAndSize(a)
        mb == GetModFeeAndSize(b)
        f1 == ma.fee * mb.size
        f2 == ma.size * mb.fee
    IN  IF f1 = f2 THEN a.nTime >= b.nTime ELSE f1 < f2

\* The sequences in which an index ordered by Less(a, b) may hold the entries
\* of the pool: entries that compare equal stand in either order.
IndexOrders(P, Less(_, _)) ==
    LET live == DOMAIN P.mapTx
        n == Cardinality(live)
    IN  {s \in [1..n -> live] :
            /\ \A j, k \in 1..n : j # k => s[j] # s[k]
            /\ \A j, k \in 1..n :
                  j < k => ~(/\ Less(P.mapTx[s[k]], P.mapTx[s[j]])
                             /\ ~Less(P.mapTx[s[j]], P.mapTx[s[k]]))}

DescendantScoreOrders(P) == IndexOrders(P, CompareTxMemPoolEntryByDescendantScore)

\* *index.begin(), 0 standing for end().
Begin(s) == IF s = <<>> THEN 0 ELSE s[1]
\* *(++mi) for mi at the live entry it.
Successor(s, it) ==
    LET k == CHOOSE j \in DOMAIN s : s[j] = it
    IN  IF k = Len(s) THEN 0 ELSE s[k + 1]

\* The removeEntry lambda of TrimToSize.
removeEntry_OnlyEntry(P, it) == RemoveStaged(P, {it}, FALSE)
removeEntry(P, it) == RemoveStaged(P, CalculateDescendants(P, it, {}, {}), FALSE)

(***************************************************************************)
(* node/miner: the block assembler.  A BlockAssembler value B is the       *)
(* record of the members of the class together with the fields of the      *)
(* block template it fills: vtx (the pool transactions of the block, in    *)
(* block order, the coinbase kept apart), cashSupply, bondSupply and       *)
(* coinbase.  The pool is locked for the whole of addPackageTxs, so the    *)
(* assembler reads one pool value P throughout.                            *)
(***************************************************************************)
WITNESS_SCALE_FACTOR == 4
MAX_BLOCK_WEIGHT == 4000000
MAX_BLOCK_SIGOPS_COST == 80000
LOCKTIME_THRESHOLD == 500000000
MAX_CONSECUTIVE_FAILURES == 1000

\* IsFinalTx(tx, nBlockHeight, nBlockTime); tx.nSequenceFinal tells whether
\* every input of tx has nSequence == SEQUENCE_FINAL.
IsFinalTx(tx, nBlockHeight, nBlockTime) ==
    IF tx.nLockTime = 0 THEN TRUE
    ELSE IF tx.nLockTime < (IF tx.nLockTime < LOCKTIME_THRESHOLD THEN nBlockHeight
                                                                 ELSE nBlockTime)
    THEN TRUE
    ELSE tx.nSequenceFinal

\* CFeeRate::GetFee(num_bytes) for a rate of nSatoshisPerK per 1000 vbytes
\* (policy/feerate.cpp): the fee rounded up, and never zero for a nonzero rate
\* and size.
GetFee(nSatoshisPerK, num_bytes) ==
    LET nFee == (nSatoshisPerK * num_bytes + 999) \div 1000
    IN  IF nFee = 0 /\ num_bytes # 0 /\ nSatoshisPerK > 0 THEN 1 ELSE nFee

\* GetBlockSubsidy(nHeight, totalSupply, params) (validation.cpp): the reward
\* in each currency, a function of the height and of the supply it is given.
GetBlockSubsidy(nHeight, supply) ==
    [t \in AmountTypes |-> (supply[t] + nHeight) \div 2]

\* BlockAssembler(chainstate, mempool, options)
BlockAssembler(options) ==
    [nBlockMaxWeight |-> Max(4000, Min(MAX_BLOCK_WEIGHT - 4000, options.nBlockMaxWeight)),
     blockMinFeeRate |-> options.blockMinFeeRate,
     nBlockWeight |-> 0, nBlockTx |-> 0, nBlockSigOpsCost |-> 0, nFees |-> ZeroPair,
     inBlock |-> {}, conversionOutputs |-> <<>>,
     nHeight |-> 0, m_lock_time_cutoff |-> 0,
     vtx |-> <<>>, cashSupply |-> 0, bondSupply |-> 0, coinbase |-> <<>>]

resetBlock(B) ==
    [B EXCEPT !.inBlock = {}, !.conversionOutputs = <<>>,
              !.nBlockWeight = 4000, !.nBlockSigOpsCost = 400,
              !.nBlockTx = 0, !.nFees = ZeroPair]

\* pblock->GetTotalSupply()
GetTotalSupply(B) == Pair(B.cashSupply, B.bondSupply)

TestPackage_AllowsLimit(B, packageSize, packageSigOpsCost) ==
    /\ ~(B.nBlockWeight + WITNESS_SCALE_FACTOR * packageSize > B.nBlockMaxWeight)
    /\ ~(B.nBlockSigOpsCost + packageSigOpsCost > MAX_BLOCK_SIGOPS_COST)
TestPackage(B, packageSize, packageSigOpsCost) ==
    /\ ~(B.nBlockWeight + WITNESS_SCALE_FACTOR * packageSize >= B.nBlockMaxWeight)
    /\ ~(B.nBlockSigOpsCost + packageSigOpsCost >= MAX_BLOCK_SIGOPS_COST)

RECURSIVE TestPackageConversions(_, _, _, _, _)
\* The second loop of TestPackageTransactions over the rest of the package,
\* with the local totalSupply and the conversionInfo of the caller as they
\* stand.
TestPackageConversions(P, package, supply, nHeight, conversionInfo) ==
    IF package = <<>> THEN [ok |-> TRUE, conversionInfo |-> conversionInfo]
    ELSE LET info == P.mapTx[Head(package)].conversionInfo
         IN  IF ~info.present
             THEN TestPackageConversions(P, Tail(package), supply, nHeight, info)
             ELSE IF info.nDeadline # 0 /\ info.nDeadline < nHeight
             THEN [ok |-> FALSE, conversionInfo |-> info]
             ELSE IF ~IsValidConversion(supply, info.inputs, info.minOutputs,
                                        info.remainderType, 0).ok
             THEN [ok |-> FALSE, conversionInfo |-> info]
             ELSE TestPackageConversions(P, Tail(package),
                      IsValidConversion(supply, info.inputs, info.minOutputs,
                                        info.remainderType, 0).supply,
                      nHeight, info)

\* TestPackageTransactions(package, conversionInfo): the value returned and
\* conversionInfo as the call leaves it (the caller passes std::nullopt).  T
\* maps a txid to its transaction; the package is walked in txid order.
TestPackageTransactions(P, T, B, package) ==
    IF \E it \in package : ~IsFinalTx(T[it], B.nHeight, B.m_lock_time_cutoff)
    THEN [ok |-> FALSE, conversionInfo |-> NoConversion]
    ELSE TestPackageConversions(P, SortedSeq(package), GetTotalSupply(B), B.nHeight,
                                NoConversion)

(***************************************************************************)
(* node/miner.h: the overlay entries.                                      *)
(***************************************************************************)
CTxMemPoolModifiedEntry(P, entry) ==
    [iter |-> entry,
     nSizeWithAncestors |-> P.mapTx[entry].nSizeWithAncestors,
     nModFeesWithAncestors |-> P.mapTx[entry].nModFeesWithAncestors,
     nSigOpCostWithAncestors |-> P.mapTx[entry].nSigOpCostWithAncestors]

update_for_parent_inclusion(P, iter, e) ==
    [e EXCEPT !.nModFeesWithAncestors = @ - P.mapTx[iter].m_modified_fee,
              !.nSizeWithAncestors = @ - GetTxSize(P.mapTx[iter]),
              !.nSigOpCostWithAncestors = @ - P.mapTx[iter].sigOpCost]

CTxMemPoolConversionEntry(P, entry, conversionRate_, conversionType_) ==
    [iter |-> entry,
     nSizeWithAncestors |-> P.mapTx[entry].nSizeWithAncestors,
     nModFeesWithAncestors |-> P.mapTx[entry].nModFeesWithAncestors,
     nSigOpCostWithAncestors |-> P.mapTx[entry].nSigOpCostWithAncestors,
     conversionRate |-> conversionRate_, conversionType |-> conversionType_]

\* A double that holds a conversion rate: the quotient n / d of two
\* non-negative integers, numeric_limits<double>::max(), +infinity or NaN.
DoubleMax == [kind |-> "max", n |-> 0, d |-> 1]
\* (double)num / (double)den * (double)outputAmount / (double)inputAmount
RateOf(num, den, outputAmount, inputAmount) ==
    IF den = 0 THEN [kind |-> IF num = 0 THEN "nan" ELSE "inf", n |-> 0, d |-> 1]
    ELSE [kind |-> "finite", n |-> num * outputAmount, d |-> den * inputAmount]
RateRank(r) == IF r.kind = "finite" THEN 0 ELSE IF r.kind = "max" THEN 1 ELSE 2

\* CompareTxMemPoolConversionEntryByConversionRate: a.rate < b.rate on doubles.
CompareTxMemPoolConversionEntryByConversionRate(a, b) ==
    LET ra == a.conversionRate
        rb == b.conversionRate
    IN  /\ ra.kind # "nan"
        /\ rb.kind # "nan"
        /\ \/ RateRank(ra) < RateRank(rb)
           \/ ra.kind = "finite" /\ rb.kind = "finite" /\ ra.n * rb.d < rb.n * ra.d

\* The places where the index_by_conversion_rate index may link a new entry:
\* its predecessor is not above it and it is below its successor.  Where no
\* rate is NaN that is the one place after the entries of no greater rate.
InsertPositions(queue, entry) ==
    {p \in 1..(Len(queue) + 1) :
        /\ p = 1 \/ ~CompareTxMemPoolConversionEntryByConversionRate(entry, queue[p - 1])
        /\ p = Len(queue) + 1
             \/ CompareTxMemPoolConversionEntryByConversionRate(entry, queue[p])}
InsertAt(queue, p, entry) ==
    [k \in 1..(Len(queue) + 1) |->
        IF k < p THEN queue[k] ELSE IF k = p THEN entry ELSE queue[k - 1]]
\* queue.erase(it) for every it of gone.
EraseAll(queue, gone) == SelectSeq(queue, LAMBDA e : e.iter \notin gone)

\* What CompareTxMemPoolEntryByAncestorFee reads of a pool entry and of an
\* overlay entry.
EntryScore(P, it) ==
    [tx |-> it, GetModifiedFee |-> P.mapTx[it].m_modified_fee,
     GetTxSize |-> GetTxSize(P.mapTx[it]),
     GetModFeesWithAncestors |-> P.mapTx[it].nModFeesWithAncestors,
     GetSizeWithAncestors |-> P.mapTx[it].nSizeWithAncestors]
ModifiedScore(P, e) ==
    [tx |-> e.iter, GetModifiedFee |-> P.mapTx[e.iter].m_modified_fee,
     GetTxSize |-> GetTxSize(P.mapTx[e.iter]),
     GetModFeesWithAncestors |-> e.nModFeesWithAncestors,
     GetSizeWithAncestors |-> e.nSizeWithAncestors]

\* CompareTxMemPoolEntryByAncestorFee (txmempool.h): by the smaller of the
\* feerate of the transaction and the feerate with its ancestors, higher
\* first, the smaller txid first among equals.
AncestorFeeAndSize(a) ==
    LET f1 == a.GetModifiedFee * a.GetSizeWithAncestors
        f2 == a.GetModFeesWithAncestors * a.GetTxSize
    IN  IF f1 > f2 THEN [fee |-> a.GetModFeesWithAncestors, size |-> a.GetSizeWithAncestors]
                   ELSE [fee |-> a.GetModifiedFee, size |-> a.GetTxSize]
CompareTxMemPoolEntryByAncestorFee(a, b) ==
    LET ma == AncestorFeeAndSize(a)
        mb == AncestorFeeAndSize(b)
        f1 == ma.fee * mb.size
        f2 == mb.fee * ma.size
    IN  IF f1 = f2 THEN a.tx < b.tx ELSE f1 > f2

RECURSIVE SortedBy(_, _)
\* The members of S in the order of the strict total order Less.
SortedBy(Less(_, _), S) ==
    IF S = {} THEN <<>>
    ELSE LET first == CHOOSE x \in S : \A y \in S \ {x} : Less(x, y)
         IN  <<first>> \o SortedBy(Less, S \ {first})

\* mempool.mapTx.get<ancestor_score>(), front to back.
AncestorScoreIndex(P) ==
    SortedBy(LAMBDA a, b : CompareTxMemPoolEntryByAncestorFee(EntryScore(P, a),
                                                              EntryScore(P, b)),
             DOMAIN P.mapTx)
\* mapModifiedTx.get<ancestor_score>().begin()->iter
BestModified(P, mapModifiedTx) ==
    CHOOSE it \in DOMAIN mapModifiedTx :
        \A o \in (DOMAIN mapModifiedTx) \ {it} :
            CompareTxMemPoolEntryByAncestorFee(ModifiedScore(P, mapModifiedTx[it]),
                                               ModifiedScore(P, mapModifiedTx[o]))

CompareTxIterByAncestorCount_Descending(P, a, b) ==
    IF P.mapTx[a].nCountWithAncestors # P.mapTx[b].nCountWithAncestors
    THEN P.mapTx[a].nCountWithAncestors > P.mapTx[b].nCountWithAncestors
    ELSE a < b
CompareTxIterByAncestorCount(P, a, b) ==
    IF P.mapTx[a].nCountWithAncestors # P.mapTx[b].nCountWithAncestors
    THEN P.mapTx[a].nCountWithAncestors < P.mapTx[b].nCountWithAncestors
    ELSE a < b

SortForBlock(P, package) ==
    SortedBy(LAMBDA a, b : CompareTxIterByAncestorCount(P, a, b), package)

\* The package of iter: its in-pool ancestors that are not in the block, and
\* iter (CalculateMemPoolAncestors, onlyUnconfirmed, ancestors.insert(iter)).
onlyUnconfirmed(B, testSet) == testSet \ B.inBlock
PackageOf(P, B, iter) ==
    onlyUnconfirmed(B,
        CalculateMemPoolAncestors(P, iter, {}, GetTxSize(P.mapTx[iter]), NoLimits,
                                  FALSE).setAncestors) \cup {iter}

GetConversionEntry(P, B, iter, conversionInfo) ==
    LET supply == GetTotalSupply(B)
        ins == conversionInfo.inputs
        outs == conversionInfo.minOutputs
    IN  IF ins[CASH] > outs[CASH] /\ ins[BOND] < outs[BOND]
        THEN CTxMemPoolConversionEntry(P, iter,
                 RateOf(GetConvertedAmount(supply, ins[CASH] - outs[CASH], CASH, FALSE),
                        CalculateOutputAmount(supply, ins[CASH] - outs[CASH], CASH),
                        outs[BOND] - ins[BOND], ins[CASH] - outs[CASH]),
                 CASH)
        ELSE IF ins[CASH] < outs[CASH] /\ ins[BOND] > outs[BOND]
        THEN CTxMemPoolConversionEntry(P, iter,
                 RateOf(GetConvertedAmount(supply, ins[BOND] - outs[BOND], BOND, FALSE),
                        CalculateOutputAmount(supply, ins[BOND] - outs[BOND], BOND),
                        outs[CASH] - ins[CASH], ins[BOND] - outs[BOND]),
                 BOND)
        ELSE CTxMemPoolConversionEntry(P, iter, DoubleMax, CASH)

\* AddConversion that leaves the block as it was.
AddConversion_KeepsSupply(B, info, res) == B
\* AddConversion that pays the remainder to the destination and to the miner.
AddConversion_PaysTwice(B, info, res) ==
    LET supplied == [B EXCEPT !.cashSupply = res.supply[CASH],
                              !.bondSupply = res.supply[BOND]]
    IN  IF res.extra > 0
        THEN [supplied EXCEPT
                 !.conversionOutputs =
                     IF info.destination
                     THEN Append(@, [amountType |-> info.remainderType, nValue |-> res.extra])
                     ELSE @,
                 !.nFees[info.remainderType] = @ + res.extra]
        ELSE supplied

\* The conversion part of AddToBlock, for a conversion that IsValidConversion
\* accepted with the result res.
AddConversion(B, info, res) ==
    LET supplied == [B EXCEPT !.cashSupply = res.supply[CASH],
                              !.bondSupply = res.supply[BOND]]
    IN  IF res.extra > 0
        THEN IF info.destination
             THEN [supplied EXCEPT !.conversionOutputs =
                       Append(@, [amountType |-> info.remainderType, nValue |-> res.extra])]
             ELSE [supplied EXCEPT !.nFees[info.remainderType] = @ + res.extra]
        ELSE supplied

AddToBlock(P, B, iter) ==
    LET e == P.mapTx[iter]
        added == [B EXCEPT !.vtx = Append(@, iter),
                           !.nBlockWeight = @ + e.nTxWeight,
                           !.nBlockTx = @ + 1,
                           !.nBlockSigOpsCost = @ + e.sigOpCost,
                           !.nFees = [t \in AmountTypes |-> @[t] + e.nFees[t]],
                           !.inBlock = @ \cup {iter}]
        info == e.conversionInfo
        res == IsValidConversion(GetTotalSupply(B), info.inputs, info.minOutputs,
                                 info.remainderType, 0)
    IN  IF info.present /\ res.ok THEN AddConversion(added, info, res) ELSE added

\* The body of the inner loop of UpdatePackagesForAdded for the descendant
\* desc of the added transaction it; L holds mapModifiedTx and the two
\* queues.
UpdateDescendantForAdded(P, L, it, desc) ==
    [L EXCEPT !.nDescendantsUpdated = @ + 1,
              !.mapModifiedTx =
                  IF desc \in DOMAIN L.mapModifiedTx
                  THEN [L.mapModifiedTx EXCEPT ![desc] =
                            update_for_parent_inclusion(P, it, L.mapModifiedTx[desc])]
                  ELSE With(L.mapModifiedTx, desc,
                            update_for_parent_inclusion(P, it,
                                CTxMemPoolModifiedEntry(P, desc))),
              !.invalidConversionTxCash =
                  [k \in DOMAIN L.invalidConversionTxCash |->
                      IF L.invalidConversionTxCash[k].iter = desc
                      THEN update_for_parent_inclusion(P, it, L.invalidConversionTxCash[k])
                      ELSE L.invalidConversionTxCash[k]],
              !.invalidConversionTxBond =
                  [k \in DOMAIN L.invalidConversionTxBond |->
                      IF L.invalidConversionTxBond[k].iter = desc
                      THEN update_for_parent_inclusion(P, it, L.invalidConversionTxBond[k])
                      ELSE L.invalidConversionTxBond[k]]]

UpdatePackagesForAdded(P, alreadyAdded, L) ==
    FoldSet(LAMBDA L1, it :
                FoldSet(LAMBDA L2, desc : UpdateDescendantForAdded(P, L2, it, desc),
                        L1, CalculateDescendants(P, it, {}, {}) \ alreadyAdded),
            L, alreadyAdded)

(***************************************************************************)
(* State.                                                                  *)
(***************************************************************************)
VARIABLES
    totalSupply,    \* the CAmounts& the caller of IsValidConversion passes
    extraOutput,    \* the CAmount& the caller passes
    inputs,         \* the request: amounts spent
    minOutputs,     \* the request: amounts guaranteed
    extraType,      \* the request: the remainder type
    supplyBefore,   \* totalSupply as it was when the call started
    extraBefore,    \* extraOutput as it was when the call started
    callState       \* "call" before the call, "true"/"false" once it returned

VARIABLES
    txs,            \* the transactions there are: txid -> transaction
    pool,           \* the CTxMemPool
    confirmed,      \* the txids the active chain holds
    spentCoins,     \* the confirmed coins the active chain has spent
    now,            \* GetTime()
    trim,           \* the TrimToSize call in progress: its arguments and cursor
    admission       \* the admission that has just returned: its arguments and result

VARIABLES
    chain,          \* the active chain: the height, supply and median time past of its tip
    ba,             \* the BlockAssembler and the block template it fills
    apt             \* addPackageTxs: where the call stands, and its locals

VARIABLES
    amt,            \* a call of the amount arithmetic: its arguments and its outcome
    wide,           \* entries and amounts in 64-bit arithmetic, and the calls on them
    mining          \* StartMining and StopMining: the caller, the flag and the threads

convVars == <<totalSupply, extraOutput, inputs, minOutputs, extraType,
              supplyBefore, extraBefore, callState>>
poolVars == <<txs, pool, confirmed, spentCoins, now, trim, admission>>

asmVars == <<chain, ba, apt>>

amountVars == <<amt, wide, mining>>

vars == <<convVars, poolVars, asmVars, amountVars>>

\* A pool just constructed, caching the given supply.
EmptyPool(supply) ==
    [mapTx |-> <<>>, mapNextTx |-> <<>>, mapDeltas |-> <<>>,
     totalTxSize |-> 0, m_total_fees |-> ZeroPair, cachedInnerUsage |-> 0,
     nTransactionsUpdated |-> 0, m_total_supply |-> supply,
     erased |-> <<>>, danglingUse |-> FALSE, aborted |-> FALSE]

\* No TrimToSize call is running.
IdleTrim == [phase |-> "idle", mi |-> 0, sizelimit |-> 0, check_invalid_conversion |-> {}]

\* The call that has just returned was not an admission through the limit check.
NoAdmission == [tx |-> 0, limits |-> NoLimits, ok |-> TRUE]

ConversionIdle ==
    /\ totalSupply = ZeroPair
    /\ extraOutput = 0
    /\ inputs = ZeroPair
    /\ minOutputs = ZeroPair
    /\ extraType = CASH
    /\ supplyBefore = ZeroPair
    /\ extraBefore = 0
    /\ callState = "idle"

\* No block is being assembled.
IdleLocals ==
    [pc |-> "idle", index |-> <<>>, mi |-> 1, mapModifiedTx |-> <<>>, failedTx |-> {},
     invalidConversionTxCash |-> <<>>, invalidConversionTxBond |-> <<>>,
     nConsecutiveFailed |-> 0, iter |-> 0, fUsingModified |-> FALSE,
     packageSize |-> 0, packageFees |-> 0, packageSigOpsCost |-> 0,
     ancestors |-> {}, conversionInfo |-> NoConversion, sortedEntries |-> <<>>,
     cashit |-> 1, bondit |-> 1, failedValidConversion |-> {}, successfulTx |-> {},
     nPackagesSelected |-> 0, nDescendantsUpdated |-> 0]

\* No call of the amount arithmetic is under way.
\* Nothing has called StartMining or StopMining.
NoMining ==
    [pc |-> "idle", caller |-> "none", nThreads |-> 0, calls |-> 0,
     fRequestStopMining |-> FALSE, minerThreads |-> <<>>,
     StartMining_minerThreads |-> <<>>, threads |-> <<>>]

AmountIdle == amt = [pc |-> "idle"] /\ wide = [pc |-> "idle"] /\ mining = NoMining

AssemblerIdle ==
    /\ chain = [nHeight |-> 0, totalSupply |-> ZeroPair, medianTimePast |-> 0]
    /\ ba = BlockAssembler([nBlockMaxWeight |-> 0, blockMinFeeRate |-> 0])
    /\ apt = IdleLocals

PoolIdle ==
    /\ txs = <<>>
    /\ pool = EmptyPool(ZeroPair)
    /\ confirmed = {}
    /\ spentCoins = {}
    /\ now = 0
    /\ trim = IdleTrim
    /\ admission = NoAdmission

(***************************************************************************)
(* Consensus::IsValidConversion under its callers (SpecConversion).        *)
(***************************************************************************)
\* What the caller may hold in the remainder variable before the call
\* (TestPackageTransactions passes 0, AddToBlock an unset value).
ExtraBeforeValues == {0, MaxAmount + 3}

InitConversion ==
    /\ AmountIdle
    /\ totalSupply \in AmountPairs
    /\ extraOutput \in ExtraBeforeValues
    /\ inputs \in AmountPairs
    /\ minOutputs \in AmountPairs
    /\ extraType \in AmountTypes
    /\ supplyBefore = totalSupply
    /\ extraBefore = extraOutput
    /\ callState = "call"
    /\ PoolIdle
    /\ AssemblerIdle

\* The call itself.
CallIsValidConversion ==
    /\ callState = "call"
    /\ LET res == IsValidConversion(totalSupply, inputs, minOutputs, extraType, extraOutput)
       IN  /\ totalSupply' = res.supply
           /\ extraOutput' = res.extra
           /\ callState' = IF res.ok THEN "true" ELSE "false"
    /\ UNCHANGED <<inputs, minOutputs, extraType, supplyBefore, extraBefore, poolVars, asmVars, amountVars>>

\* The caller goes on with the next conversion against the supply it now holds
\* (the loop of TestPackageTransactions), with the remainder variable reset.
NextConversion ==
    /\ callState \in {"true", "false"}
    /\ \A t \in AmountTypes : totalSupply[t] >= 0
    /\ \E i \in AmountPairs, o \in AmountPairs, t \in AmountTypes :
          /\ inputs' = i
          /\ minOutputs' = o
          /\ extraType' = t
    /\ extraOutput' = 0
    /\ supplyBefore' = totalSupply
    /\ extraBefore' = 0
    /\ callState' = "call"
    /\ UNCHANGED <<totalSupply, poolVars, asmVars, amountVars>>

NextConversionSpec == CallIsValidConversion \/ NextConversion

SpecConversion == InitConversion /\ [][NextConversionSpec]_vars

(***************************************************************************)
(* The pool under its callers (SpecPool).                                  *)
(***************************************************************************)
\* nTransactionsUpdated is not taken past MaxUpdates, the clock not past MaxTime.
MaxUpdates == 4
MaxTime == 1
\* A connected block holds at most MaxBlockTx pool transactions.
MaxBlockTx == 2

\* The supplies a connected block hands to the pool.
PoolSupplies == {Pair(2, 3), Pair(3, 1)}
\* The size limits TrimToSize is called with, in units of DynamicMemoryUsage.
SizeLimits == {0, 4}
\* The prioritisation maps the pool may start with: PrioritiseTransaction was not
\* called, or was called for the transaction with the smallest txid.
InitialDeltas == {<<>>, With(<<>>, 1, 1)}

\* The parent maps without a cycle.
ParentMaps ==
    {par \in [TxIds -> SUBSET TxIds] : \A i \in TxIds : i \notin Reach(par, par[i], {})}

\* The transactions of the pool specification: transaction i has fees, weight
\* and sigop cost that are distinct powers of two, so that a sum tells which
\* transactions it was taken over.
PoolTx(i, par, coin) ==
    [id |-> i, parents |-> par[i], coin |-> coin[i],
     nFees |-> Pair(2 ^ (MaxTx - i), 2 ^ (i - 1)),
     nTxWeight |-> 400 * 2 ^ (i - 1), sigOpCost |-> 2 ^ (i - 1),
     conversionInfo |-> NoConversion]

PoolUniverses ==
    {[i \in TxIds |-> PoolTx(i, par, coin)] :
        par \in ParentMaps, coin \in {c \in [TxIds -> TxIds] :
                          \A i \in TxIds : c[i] = i \/ (i = MaxTx /\ c[i] = 1)}}

InitPool ==
    /\ AmountIdle
    /\ ConversionIdle
    /\ AssemblerIdle
    /\ txs \in PoolUniverses
    /\ pool \in {[EmptyPool(ZeroPair) EXCEPT !.mapDeltas = d] : d \in InitialDeltas}
    /\ confirmed = {}
    /\ spentCoins = {}
    /\ now = 0
    /\ trim = IdleTrim
    /\ admission = NoAdmission

\* The pool lock is free and the process alive.
\* CreateNewBlock holds the pool's cs: it is inside the block that locks it
\* around addPackageTxs.
MinerHoldsCs == apt.pc \in {"primary", "append", "drain", "drainAppend", "drainBreak"}

\* A pool call that does not wait for cs.
PoolReady_WithoutLock ==
    /\ trim.phase = "idle"
    /\ ~pool.aborted
    /\ pool.nTransactionsUpdated < MaxUpdates

PoolReady ==
    /\ trim.phase = "idle"
    /\ ~MinerHoldsCs
    /\ ~pool.aborted
    /\ pool.nTransactionsUpdated < MaxUpdates

\* The process died in the call: nothing of the pool is left.
Aborted(P) == [EmptyPool(ZeroPair) EXCEPT !.aborted = TRUE, !.danglingUse = P.danglingUse]
\* A call starts: danglingUse tells whether the call went through a dangling
\* iterator.
Enter(P) == [P EXCEPT !.danglingUse = FALSE]
\* The call returns: what it erased is gone for good.
Finish(P) == IF P.aborted THEN Aborted(P) ELSE [P EXCEPT !.erased = <<>>]

\* What validation checks before it admits tx: not known yet, every input
\* available, none spent by the chain or by the pool.
CanAdmit(tx) ==
    /\ tx.id \notin DOMAIN pool.mapTx
    /\ tx.id \notin confirmed
    /\ tx.parents \subseteq (DOMAIN pool.mapTx) \cup confirmed
    /\ tx.coin \notin spentCoins
    /\ <<0, tx.coin>> \notin DOMAIN pool.mapNextTx

AddUncheckedCall ==
    /\ PoolReady
    /\ \E i \in TxIds :
          /\ CanAdmit(txs[i])
          /\ pool' = Finish(addUncheckedEntry(Enter(pool), txs[i],
                         CTxMemPoolEntry(txs[i],
                             AdmissionNormalizedFee(txs[i], pool.m_total_supply), now)))
    /\ UNCHANGED <<amountVars, convVars, asmVars, txs, confirmed, spentCoins, now, trim>>
    /\ admission' = NoAdmission

\* The limits validation is configured with (-limitancestorcount and the like):
\* one of the four is set, the others are out of reach.
MaxLimitCount == 2
LimitCounts == 1..MaxLimitCount
LimitSizes == {300, 500}
AdmissionLimits ==
    {[NoLimits EXCEPT !.ancestorCount = Limit(MaxLimitCount)],
     [NoLimits EXCEPT !.ancestorSize = Limit(300)],
     [NoLimits EXCEPT !.descendantCount = Limit(MaxLimitCount)],
     [NoLimits EXCEPT !.descendantSize = Limit(300)]}

\* Admission as validation does it: CalculateMemPoolAncestors with the
\* configured limits, a rejection if it returns false, and otherwise
\* addUnchecked with the ancestors it returned.
AcceptToMemoryPool_LinksFirst(P, tx, entry, limits) ==
    LET r == CalculateMemPoolAncestors(P, tx.id, tx.parents, GetTxSize(entry), limits, TRUE)
    IN  [ok |-> r.ok, pool |-> addUnchecked(P, tx, entry, r.setAncestors)]
AcceptToMemoryPool(P, tx, entry, limits) ==
    LET r == CalculateMemPoolAncestors(P, tx.id, tx.parents, GetTxSize(entry), limits, TRUE)
    IN  [ok |-> r.ok,
         pool |-> IF r.ok THEN addUnchecked(P, tx, entry, r.setAncestors) ELSE P]

AcceptToMemoryPoolCall ==
    /\ PoolReady
    /\ \E i \in TxIds, limits \in AdmissionLimits :
          /\ CanAdmit(txs[i])
          /\ LET res == AcceptToMemoryPool(Enter(pool), txs[i],
                            CTxMemPoolEntry(txs[i],
                                AdmissionNormalizedFee(txs[i], pool.m_total_supply), now),
                            limits)
             IN  /\ pool' = Finish(res.pool)
                 /\ admission' = [tx |-> i, limits |-> limits, ok |-> res.ok]
    /\ UNCHANGED <<amountVars, convVars, asmVars, txs, confirmed, spentCoins, now, trim>>

RemoveRecursiveCall ==
    /\ PoolReady
    /\ \E i \in TxIds : pool' = Finish(removeRecursive(Enter(pool), i))
    /\ UNCHANGED <<amountVars, convVars, asmVars, txs, confirmed, spentCoins, now, trim>>
    /\ admission' = NoAdmission

\* The blocks the chain can connect: each transaction unconfirmed, with its
\* parents confirmed or earlier in the block and its coin unspent.
IsConnectable(vtx) ==
    \A k \in DOMAIN vtx :
        LET earlier == {vtx[j] : j \in 1..(k - 1)}
        IN  /\ vtx[k] \notin confirmed \cup earlier
            /\ txs[vtx[k]].parents \subseteq confirmed \cup earlier
            /\ txs[vtx[k]].coin \notin spentCoins \cup {txs[j].coin : j \in earlier}

ConnectableBlocks ==
    {vtx \in UNION {[1..n -> TxIds] : n \in 0..MaxBlockTx} : IsConnectable(vtx)}

\* removeForBlock returns P.  If it went through entries it had already
\* erased, the process may have crashed instead.
RemoveForBlockReturn(P) ==
    \E crash \in (IF P.danglingUse THEN BOOLEAN ELSE {FALSE}) :
        pool' = IF crash THEN Aborted(P) ELSE Finish(P)

\* removeForBlock from the point where the block's transactions are out of Q.
RemoveForBlockPredicates(Q, supply) ==
    \E check_expired \in SUBSET DOMAIN Q.mapTx :
        \E check_invalid_conversion \in SUBSET ((DOMAIN Q.mapTx) \ check_expired) :
            RemoveForBlockReturn(
                removeForBlockRest(Q, supply, check_expired, check_invalid_conversion))

RemoveForBlockCall ==
    /\ PoolReady
    /\ \E vtx \in ConnectableBlocks, supply \in PoolSupplies :
          /\ RemoveForBlockPredicates(
                 removeForBlockTxs(Enter(pool), [k \in DOMAIN vtx |-> txs[vtx[k]]]), supply)
          /\ confirmed' = confirmed \cup Range(vtx)
          /\ spentCoins' = spentCoins \cup {txs[i].coin : i \in Range(vtx)}
    /\ UNCHANGED <<amountVars, convVars, asmVars, txs, now, trim>>
    /\ admission' = NoAdmission

ExpireCall ==
    /\ PoolReady
    /\ \E time \in 1..now : pool' = Finish(Expire(Enter(pool), time))
    /\ UNCHANGED <<amountVars, convVars, asmVars, txs, confirmed, spentCoins, now, trim>>
    /\ admission' = NoAdmission

AdvanceTime ==
    /\ PoolReady
    /\ now < MaxTime
    /\ now' = now + 1
    /\ UNCHANGED <<amountVars, convVars, asmVars, txs, pool, confirmed, spentCoins, trim>>
    /\ admission' = NoAdmission

\* TrimToSize(sizelimit, check_invalid_conversion) is entered: the cursor of the
\* first loop stands at the head of the descendant_score index.
TrimToSizeCall ==
    /\ PoolReady
    /\ \E sizelimit \in SizeLimits, check \in SUBSET DOMAIN pool.mapTx,
          s \in DescendantScoreOrders(pool) :
          /\ DynamicMemoryUsage(pool) > sizelimit
          /\ trim' = [phase |-> "invalid", mi |-> Begin(s), sizelimit |-> sizelimit,
                      check_invalid_conversion |-> check]
    /\ pool' = Enter(pool)
    /\ UNCHANGED <<amountVars, convVars, asmVars, txs, confirmed, spentCoins, now>>
    /\ admission' = NoAdmission

\* ++mi in the first loop of TrimToSize, with the cursor at it and the pool
\* P.  When removeEntry has erased the entry the cursor stands on, ++mi goes
\* through the erased node: the process crashes, or the cursor comes out at
\* end(), at a live entry or at an erased one.
TrimToSizeAdvance(P, it) ==
    IF P.aborted
    THEN trim' = IdleTrim /\ pool' = Aborted(P)
    ELSE IF it \in DOMAIN P.mapTx
    THEN /\ pool' = P
         /\ \E s \in DescendantScoreOrders(P) : trim' = [trim EXCEPT !.mi = Successor(s, it)]
    ELSE \/ trim' = IdleTrim /\ pool' = Aborted([P EXCEPT !.danglingUse = TRUE])
         \/ /\ pool' = [P EXCEPT !.danglingUse = TRUE]
            /\ \E next \in {0} \cup DOMAIN P.mapTx
                     \cup (IF P.nTransactionsUpdated < MaxUpdates
                           THEN DOMAIN P.erased ELSE {}) :
                  trim' = [trim EXCEPT !.mi = next]

\* One turn of the first loop of TrimToSize.
TrimToSizeInvalidPass ==
    /\ trim.phase = "invalid"
    /\ UNCHANGED <<amountVars, convVars, asmVars, txs, confirmed, spentCoins, now>>
    /\ admission' = NoAdmission
    /\ IF trim.mi = 0
       THEN trim' = [trim EXCEPT !.phase = "fee"] /\ UNCHANGED pool
       ELSE IF DynamicMemoryUsage(pool) <= trim.sizelimit
       THEN trim' = IdleTrim /\ pool' = Finish(pool)
       ELSE TrimToSizeAdvance(
                IF trim.mi \in trim.check_invalid_conversion THEN removeEntry(pool, trim.mi)
                                                              ELSE pool,
                trim.mi)

\* The second loop of TrimToSize goes on with the pool P.
TrimToSizeEvicted(P) ==
    IF P.aborted THEN trim' = IdleTrim /\ pool' = Aborted(P)
                 ELSE trim' = trim /\ pool' = P

\* One turn of the second loop of TrimToSize, or its return.
TrimToSizeFeePass ==
    /\ trim.phase = "fee"
    /\ UNCHANGED <<amountVars, convVars, asmVars, txs, confirmed, spentCoins, now>>
    /\ admission' = NoAdmission
    /\ IF DOMAIN pool.mapTx # {} /\ DynamicMemoryUsage(pool) > trim.sizelimit
       THEN \E s \in DescendantScoreOrders(pool) : TrimToSizeEvicted(removeEntry(pool, Begin(s)))
       ELSE trim' = IdleTrim /\ pool' = Finish(pool)

NextPool ==
    \/ AddUncheckedCall
    \/ AcceptToMemoryPoolCall
    \/ RemoveRecursiveCall
    \/ RemoveForBlockCall
    \/ ExpireCall
    \/ AdvanceTime
    \/ TrimToSizeCall
    \/ TrimToSizeInvalidPass
    \/ TrimToSizeFeePass

SpecPool == InitPool /\ [][NextPool]_vars


(***************************************************************************)
(* CreateNewBlock over a pool (SpecAssembler).                             *)
(***************************************************************************)
\* The chain tip: height 1, so that the block assembled has nHeight 2.
Chains == {[nHeight |-> 1, totalSupply |-> Pair(3, 4), medianTimePast |-> 0]}

\* The conversion requests of the pool's transactions.  At the tip supply
\* {3, 4} the first turns 3 cash into 1 bond and is valid; the other two turn
\* 1 bond into 3 and into 2 cash and are valid only once the first has moved
\* the supply to {0, 5}.
ConversionRequests ==
    {[inputs |-> Pair(3, 0), minOutputs |-> Pair(0, 1), remainderType |-> BOND,
      destination |-> FALSE],
     [inputs |-> Pair(0, 1), minOutputs |-> Pair(3, 0), remainderType |-> CASH,
      destination |-> TRUE],
     [inputs |-> Pair(0, 1), minOutputs |-> Pair(2, 0), remainderType |-> CASH,
      destination |-> FALSE]}
CTxConversionInfo(request, nDeadline) ==
    [present |-> TRUE, inputs |-> request.inputs, minOutputs |-> request.minOutputs,
     remainderType |-> request.remainderType, nDeadline |-> nDeadline,
     destination |-> request.destination]
\* A pool holds at most MaxConversions conversion transactions.
MaxConversions == 2
ConversionMaps ==
    {c \in [TxIds -> {NoConversion} \cup
                     {CTxConversionInfo(r, 0) : r \in ConversionRequests}] :
        Cardinality({i \in TxIds : c[i].present}) <= MaxConversions}

\* The feerates of the pool's transactions, in units per 1000 vbytes.
FeeRates == {1000, 3000}

\* What sets a pool apart from the plain one (every transaction final and of
\* 100 vbytes, no deadline, room for every transaction, a floor of 1000):
\* nothing, a deadline on one conversion, a lock time on one transaction,
\* a weight limit that is tight, a higher floor, transactions heavy in
\* signature operations (which pay 1 or 3 units each, with no floor), or
\* conversions that declare a destination where the plain ones declare none.
Variations ==
    {[kind |-> "plain", tx |-> 0, value |-> 0]}
    \cup {[kind |-> "deadline", tx |-> i, value |-> d] : i \in TxIds, d \in {1, 2}}
    \cup {[kind |-> "locktime", tx |-> i, value |-> 2] : i \in TxIds}
    \cup {[kind |-> "maxweight", tx |-> 0, value |-> w] : w \in {1000, 4800}}
    \cup {[kind |-> "minfee", tx |-> 0, value |-> 2000]}
    \cup {[kind |-> "sigops", tx |-> 0, value |-> 39800]}
    \cup {[kind |-> "destination", tx |-> 0, value |-> 0]}

AssemblerTx(i, par, conv, rate, v) ==
    LET sigOpCost == IF v.kind = "sigops" THEN v.value ELSE 4
        nTxWeight == 397 + i
    IN  [id |-> i, parents |-> par[i], coin |-> i,
         nFees |-> Pair(IF v.kind = "sigops" THEN rate[i] \div 1000
                        ELSE (rate[i] * GetVirtualTransactionSize(nTxWeight, sigOpCost,
                                                                  nBytesPerSigOp)) \div 1000,
                        0),
         nTxWeight |-> nTxWeight, sigOpCost |-> sigOpCost,
         conversionInfo |->
             IF conv[i].present /\ v.kind = "deadline" /\ v.tx = i
             THEN [conv[i] EXCEPT !.nDeadline = v.value]
             ELSE IF conv[i].present /\ v.kind = "destination"
             THEN [conv[i] EXCEPT !.destination = ~@]
             ELSE conv[i],
         nLockTime |-> IF v.kind = "locktime" /\ v.tx = i THEN v.value ELSE 0,
         nSequenceFinal |-> FALSE]

AssemblerOptions(v) ==
    [nBlockMaxWeight |-> IF v.kind = "maxweight" THEN v.value ELSE MAX_BLOCK_WEIGHT,
     blockMinFeeRate |-> IF v.kind = "minfee" THEN v.value
                         ELSE IF v.kind = "sigops" THEN 0 ELSE 1000]

RECURSIVE Admitted(_, _)
\* The pool P once every transaction of T it does not hold yet was admitted,
\* parents before children.
Admitted(P, T) ==
    LET ready == {i \in DOMAIN T : i \notin DOMAIN P.mapTx
                                   /\ T[i].parents \subseteq DOMAIN P.mapTx}
    IN  IF ready = {} THEN P
        ELSE Admitted(
                 Finish(addUncheckedEntry(Enter(P), T[MinOf(ready)],
                     CTxMemPoolEntry(T[MinOf(ready)],
                         AdmissionNormalizedFee(T[MinOf(ready)], P.m_total_supply), 0))),
                 T)

InitAssembler ==
    /\ AmountIdle
    /\ ConversionIdle
    /\ chain \in Chains
    /\ \E v \in Variations :
          /\ txs \in {[i \in TxIds |-> AssemblerTx(i, par, conv, rate, v)] :
                          par \in ParentMaps, conv \in ConversionMaps,
                          rate \in [TxIds -> FeeRates]}
          /\ ba = BlockAssembler(AssemblerOptions(v))
    /\ pool = Admitted(EmptyPool(chain.totalSupply), txs)
    /\ confirmed = {}
    /\ spentCoins = {}
    /\ now = 0
    /\ trim = IdleTrim
    /\ admission = NoAdmission
    /\ apt = IdleLocals

\* CreateNewBlock up to the call of addPackageTxs, and addPackageTxs up to its
\* primary loop.
CreateNewBlockBegin ==
    /\ apt.pc = "idle"
    /\ trim.phase = "idle"
    /\ ~pool.aborted
    /\ ba' = [resetBlock(ba) EXCEPT !.vtx = <<>>, !.coinbase = <<>>,
                  !.nHeight = chain.nHeight + 1,
                  !.cashSupply = chain.totalSupply[CASH],
                  !.bondSupply = chain.totalSupply[BOND],
                  !.m_lock_time_cutoff = chain.medianTimePast]
    /\ apt' = [IdleLocals EXCEPT !.pc = "primary", !.index = AncestorScoreIndex(pool)]
    /\ UNCHANGED <<amountVars, convVars, poolVars, chain>>

\* The entry is put into the queue of its conversion type, unless the queue
\* holds the transaction already.
InsertConversionEntry(L, entry) ==
    IF entry.conversionType = CASH
    THEN IF \E k \in DOMAIN L.invalidConversionTxCash :
                L.invalidConversionTxCash[k].iter = entry.iter
         THEN apt' = L
         ELSE \E p \in InsertPositions(L.invalidConversionTxCash, entry) :
                 apt' = [L EXCEPT !.invalidConversionTxCash = InsertAt(@, p, entry)]
    ELSE IF \E k \in DOMAIN L.invalidConversionTxBond :
                L.invalidConversionTxBond[k].iter = entry.iter
         THEN apt' = L
         ELSE \E p \in InsertPositions(L.invalidConversionTxBond, entry) :
                 apt' = [L EXCEPT !.invalidConversionTxBond = InsertAt(@, p, entry)]

\* The failed overlay entry that stays in the overlay.
EraseFailedModified_KeepsEntry(L) == L

\* if (fUsingModified) { mapModifiedTx.erase(modit); failedTx.insert(iter); }
EraseFailedModified(L) ==
    IF L.fUsingModified
    THEN [L EXCEPT !.mapModifiedTx = Without(@, {L.iter}), !.failedTx = @ \cup {L.iter}]
    ELSE L

\* The primary loop from TestPackageTransactions on, for the package and the
\* result of the test.
PrimaryTested(L, package, test) ==
    IF ~test.ok
    THEN LET conversionInfo ==
                 IF /\ test.conversionInfo.present
                    /\ Cardinality({it \in package : pool.mapTx[it].conversionInfo.present}) > 1
                 THEN NoConversion ELSE test.conversionInfo
             failed == [EraseFailedModified(L) EXCEPT !.ancestors = package,
                                                      !.conversionInfo = conversionInfo]
         IN  IF conversionInfo.present
             THEN InsertConversionEntry(failed,
                      GetConversionEntry(pool, ba, L.iter, conversionInfo))
             ELSE apt' = failed
    ELSE apt' = [L EXCEPT !.nConsecutiveFailed = 0, !.ancestors = package,
                          !.conversionInfo = test.conversionInfo,
                          !.sortedEntries = SortForBlock(pool, package),
                          !.pc = "append"]

\* The primary loop from the fee floor on, with iter, fUsingModified and the
\* package values in L.
PrimaryEvaluate(L) ==
    IF L.iter \in ba.inBlock
    THEN apt' = [L EXCEPT !.pc = "aborted"]
    ELSE IF L.packageFees < GetFee(ba.blockMinFeeRate, L.packageSize)
    THEN apt' = [L EXCEPT !.pc = "finish"]
    ELSE IF ~TestPackage(ba, L.packageSize, L.packageSigOpsCost)
    THEN apt' = [EraseFailedModified(L) EXCEPT
                     !.nConsecutiveFailed = @ + 1,
                     !.pc = IF /\ L.nConsecutiveFailed + 1 > MAX_CONSECUTIVE_FAILURES
                               /\ ba.nBlockWeight > ba.nBlockMaxWeight - 4000
                            THEN "finish" ELSE "primary"]
    ELSE \E package \in {PackageOf(pool, ba, L.iter)} :
            \E test \in {TestPackageTransactions(pool, txs, ba, package)} :
                PrimaryTested(L, package, test)

\* iter is chosen: the package values are those of the overlay entry or of
\* the pool entry.
PrimaryChosen(L, entry) ==
    \E M \in {[L EXCEPT !.iter = entry.iter,
                         !.packageSize = entry.nSizeWithAncestors,
                         !.packageFees = entry.nModFeesWithAncestors,
                         !.packageSigOpsCost = entry.nSigOpCostWithAncestors]} :
        PrimaryEvaluate(M)

\* One turn of the primary loop of addPackageTxs, or its end.
PrimaryTurn ==
    /\ apt.pc = "primary"
    /\ UNCHANGED <<amountVars, convVars, poolVars, chain, ba>>
    /\ IF apt.mi > Len(apt.index)
       THEN IF DOMAIN apt.mapModifiedTx = {}
            THEN apt' = [apt EXCEPT !.pc = "finish"]
            ELSE PrimaryChosen([apt EXCEPT !.fUsingModified = TRUE],
                               apt.mapModifiedTx[BestModified(pool, apt.mapModifiedTx)])
       ELSE IF apt.index[apt.mi] \in (DOMAIN apt.mapModifiedTx) \cup ba.inBlock \cup apt.failedTx
       THEN apt' = [apt EXCEPT !.mi = @ + 1]
       ELSE IF /\ DOMAIN apt.mapModifiedTx # {}
               /\ CompareTxMemPoolEntryByAncestorFee(
                      ModifiedScore(pool,
                          apt.mapModifiedTx[BestModified(pool, apt.mapModifiedTx)]),
                      ModifiedScore(pool,
                          CTxMemPoolModifiedEntry(pool, apt.index[apt.mi])))
       THEN PrimaryChosen([apt EXCEPT !.fUsingModified = TRUE],
                          apt.mapModifiedTx[BestModified(pool, apt.mapModifiedTx)])
       ELSE PrimaryChosen([apt EXCEPT !.fUsingModified = FALSE, !.mi = @ + 1],
                          CTxMemPoolModifiedEntry(pool, apt.index[apt.mi]))

\* AddToBlock(sortedEntries[i]) and the erasures that follow it, in the primary
\* loop and in a drain.
AddToBlockStep ==
    /\ apt.pc \in {"append", "drainAppend"}
    /\ apt.sortedEntries # <<>>
    /\ ba' = AddToBlock(pool, ba, Head(apt.sortedEntries))
    /\ apt' = [apt EXCEPT !.sortedEntries = Tail(@),
                          !.mapModifiedTx = Without(@, {Head(apt.sortedEntries)}),
                          !.successfulTx =
                              IF apt.pc = "drainAppend"
                              THEN @ \cup {Head(apt.sortedEntries)} ELSE @]
    /\ UNCHANGED <<amountVars, convVars, poolVars, chain>>

\* The primary loop once the package is in the block: UpdatePackagesForAdded,
\* and the drain is entered if conversionInfo holds a value.
PrimaryPackageAdded ==
    /\ apt.pc = "append"
    /\ apt.sortedEntries = <<>>
    /\ apt' = [UpdatePackagesForAdded(pool, apt.ancestors,
                   [apt EXCEPT !.nPackagesSelected = @ + 1])
               EXCEPT !.pc = IF apt.conversionInfo.present THEN "drain" ELSE "primary",
                      !.cashit = 1, !.bondit = 1,
                      !.failedValidConversion = {}, !.successfulTx = {}]
    /\ UNCHANGED <<amountVars, convVars, poolVars, chain, ba>>

\* The drain from the re-test on, for the entry conversionit of the queue of
\* conversionType and its package.
DrainTested(conversionit, conversionType, package, test) ==
    IF ~test.ok
    THEN apt' = [apt EXCEPT !.iter = conversionit.iter, !.ancestors = package,
                    !.cashit = IF conversionType = CASH
                               THEN Len(apt.invalidConversionTxCash) + 1 ELSE @,
                    !.bondit = IF conversionType = BOND
                               THEN Len(apt.invalidConversionTxBond) + 1 ELSE @]
    ELSE IF conversionit.nModFeesWithAncestors
                < GetFee(ba.blockMinFeeRate, conversionit.nSizeWithAncestors)
    THEN apt' = [apt EXCEPT !.iter = conversionit.iter, !.ancestors = package,
                    !.failedValidConversion = @ \cup {conversionit.iter}]
    ELSE IF ~TestPackage(ba, conversionit.nSizeWithAncestors,
                         conversionit.nSigOpCostWithAncestors)
    THEN apt' = [apt EXCEPT !.iter = conversionit.iter, !.ancestors = package,
                    !.failedValidConversion = @ \cup {conversionit.iter},
                    !.nConsecutiveFailed = @ + 1,
                    !.pc = IF /\ apt.nConsecutiveFailed + 1 > MAX_CONSECUTIVE_FAILURES
                              /\ ba.nBlockWeight > ba.nBlockMaxWeight - 4000
                           THEN "drainBreak" ELSE "drain"]
    ELSE apt' = [apt EXCEPT !.iter = conversionit.iter, !.ancestors = package,
                    !.packageSize = conversionit.nSizeWithAncestors,
                    !.packageFees = conversionit.nModFeesWithAncestors,
                    !.packageSigOpsCost = conversionit.nSigOpCostWithAncestors,
                    !.nConsecutiveFailed = 0,
                    !.sortedEntries = SortForBlock(pool, package),
                    !.pc = "drainAppend"]

\* The drain with conversionit chosen.
DrainChosen(conversionit, conversionType) ==
    IF conversionit.iter \in ba.inBlock \cup apt.failedValidConversion
    THEN apt' = [apt EXCEPT !.iter = conversionit.iter,
                    !.cashit = IF conversionType = CASH THEN @ + 1 ELSE @,
                    !.bondit = IF conversionType = BOND THEN @ + 1 ELSE @]
    ELSE DrainTested(conversionit, conversionType,
                     PackageOf(pool, ba, conversionit.iter),
                     TestPackageTransactions(pool, txs, ba,
                                             PackageOf(pool, ba, conversionit.iter)))

\* conversionit and conversionType as a turn of the drain loop sets them: the
\* head of the queue that is not at its end, or of the two heads the one
\* CompareTxMemPoolEntryByAncestorFee puts first.
ConversionIt(L) ==
    IF L.cashit > Len(L.invalidConversionTxCash)
    THEN [entry |-> L.invalidConversionTxBond[L.bondit], conversionType |-> BOND]
    ELSE IF L.bondit > Len(L.invalidConversionTxBond)
    THEN [entry |-> L.invalidConversionTxCash[L.cashit], conversionType |-> CASH]
    ELSE IF CompareTxMemPoolEntryByAncestorFee(
                ModifiedScore(pool, L.invalidConversionTxCash[L.cashit]),
                ModifiedScore(pool, L.invalidConversionTxBond[L.bondit]))
    THEN [entry |-> L.invalidConversionTxCash[L.cashit], conversionType |-> CASH]
    ELSE [entry |-> L.invalidConversionTxBond[L.bondit], conversionType |-> BOND]

\* The drain loop goes on: one of the two cursors is not at its end.
DrainGoesOn(L) ==
    \/ L.cashit <= Len(L.invalidConversionTxCash)
    \/ L.bondit <= Len(L.invalidConversionTxBond)

\* One turn of the drain loop.
DrainTurn ==
    /\ apt.pc = "drain"
    /\ DrainGoesOn(apt)
    /\ UNCHANGED <<amountVars, convVars, poolVars, chain, ba>>
    /\ DrainChosen(ConversionIt(apt).entry, ConversionIt(apt).conversionType)

\* The drain once the package is in the block.
DrainPackageAdded ==
    /\ apt.pc = "drainAppend"
    /\ apt.sortedEntries = <<>>
    /\ apt' = [UpdatePackagesForAdded(pool, apt.ancestors,
                   [apt EXCEPT !.nPackagesSelected = @ + 1])
               EXCEPT !.pc = "drain"]
    /\ UNCHANGED <<amountVars, convVars, poolVars, chain, ba>>

\* The drain loop is left: what failed though valid and what succeeded goes
\* out of both queues.
DrainEnd ==
    /\ \/ apt.pc = "drainBreak"
       \/ apt.pc = "drain" /\ ~DrainGoesOn(apt)
    /\ apt' = [apt EXCEPT
                  !.invalidConversionTxCash =
                      EraseAll(@, apt.failedValidConversion \cup apt.successfulTx),
                  !.invalidConversionTxBond =
                      EraseAll(@, apt.failedValidConversion \cup apt.successfulTx),
                  !.pc = "primary"]
    /\ UNCHANGED <<amountVars, convVars, poolVars, chain, ba>>

\* CreateNewBlock from the return of addPackageTxs on.  TestBlockValidity is
\* the chain's; the call returns the template if it accepts the block and
\* throws if it does not.
CreateNewBlockEnd ==
    /\ apt.pc = "finish"
    /\ LET reward == GetBlockSubsidy(ba.nHeight, GetTotalSupply(ba))
       IN  ba' = [ba EXCEPT !.cashSupply = @ + reward[CASH],
                            !.bondSupply = @ + reward[BOND],
                            !.coinbase =
                                <<[amountType |-> CASH, nValue |-> ba.nFees[CASH] + reward[CASH]],
                                  [amountType |-> BOND, nValue |-> ba.nFees[BOND] + reward[BOND]]>>
                                \o ba.conversionOutputs]
    /\ \E valid \in BOOLEAN : apt' = [apt EXCEPT !.pc = IF valid THEN "returned" ELSE "threw"]
    /\ UNCHANGED <<amountVars, convVars, poolVars, chain>>

NextAssembler ==
    \/ CreateNewBlockBegin
    \/ PrimaryTurn
    \/ AddToBlockStep
    \/ PrimaryPackageAdded
    \/ DrainTurn
    \/ DrainPackageAdded
    \/ DrainEnd
    \/ CreateNewBlockEnd

SpecAssembler == InitAssembler /\ [][NextAssembler]_vars


(***************************************************************************)
(* The pool's calls and CreateNewBlock in one process (SpecNode).          *)
(***************************************************************************)
\* The transactions of the node: a conversion that is valid at the tip, one
\* that pays more and is valid only after the first, and a plain transaction
\* that may spend the first.
NodeUniverses ==
    {[i \in TxIds |->
        AssemblerTx(i, par,
            [j \in TxIds |->
                IF j = 1 THEN CTxConversionInfo(
                                  CHOOSE r \in ConversionRequests : r.inputs = Pair(3, 0), 0)
                ELSE IF j = 2 THEN CTxConversionInfo(
                                  CHOOSE r \in ConversionRequests : r.minOutputs = Pair(3, 0), 0)
                ELSE NoConversion],
            [j \in TxIds |-> IF j = 2 THEN 3000 ELSE 1000],
            [kind |-> "plain", tx |-> 0, value |-> 0])] :
        par \in {[j \in TxIds |-> {}], [j \in TxIds |-> IF j = MaxTx THEN {1} ELSE {}]}}

InitNode ==
    /\ AmountIdle
    /\ ConversionIdle
    /\ chain \in Chains
    /\ txs \in NodeUniverses
    /\ ba = BlockAssembler(AssemblerOptions([kind |-> "plain", tx |-> 0, value |-> 0]))
    /\ pool = EmptyPool(chain.totalSupply)
    /\ confirmed = {}
    /\ spentCoins = {}
    /\ now = 0
    /\ trim = IdleTrim
    /\ admission = NoAdmission
    /\ apt = IdleLocals

\* PrioritiseTransaction(hash, nFeeDelta)
PrioritiseTransaction(P, hash, nFeeDelta) ==
    LET delta == SaturatingAdd(IF hash \in DOMAIN P.mapDeltas THEN P.mapDeltas[hash] ELSE 0,
                               nFeeDelta)
        noted == [P EXCEPT !.mapDeltas = With(@, hash, delta)]
        nFeeDeltas == Pair(nFeeDelta, 0)
    IN  IF hash \notin DOMAIN P.mapTx THEN noted
        ELSE LET modified == Modify(noted, hash,
                                 UpdateModifiedFee(EntryAt(noted, hash), nFeeDelta,
                                                   P.m_total_supply))
                 setAncestors == CalculateMemPoolAncestors(modified, hash, {},
                                     GetTxSize(EntryAt(modified, hash)), NoLimits,
                                     FALSE).setAncestors
                 upward == FoldSet(LAMBDA Q, ancestorIt :
                                       ModifyDescendantState(Q, ancestorIt, 0, nFeeDeltas, 0),
                                   modified, setAncestors)
                 setDescendants == CalculateDescendants(upward, hash, {}, {}) \ {hash}
                 downward == FoldSet(LAMBDA Q, descendantIt :
                                         ModifyAncestorState(Q, descendantIt, 0, nFeeDeltas, 0, 0),
                                     upward, setDescendants)
             IN  [downward EXCEPT !.nTransactionsUpdated = @ + 1]

\* The fee deltas the node is asked for add up to MaxDelta at most, and are
\* asked for the first transaction.
MaxDelta == 1
PrioritiseTransactionCall ==
    /\ PoolReady
    /\ \E hash \in {1}, nFeeDelta \in {1} :
          /\ hash \in DOMAIN pool.mapDeltas => pool.mapDeltas[hash] + nFeeDelta <= MaxDelta
          /\ pool' = Finish(PrioritiseTransaction(Enter(pool), hash, nFeeDelta))
    /\ UNCHANGED <<amountVars, convVars, asmVars, txs, confirmed, spentCoins, now, trim>>
    /\ admission' = NoAdmission

NextNode ==
    \/ NextPool
    \/ PrioritiseTransactionCall
    \/ NextAssembler

SpecNode == InitNode /\ [][NextNode]_vars

(***************************************************************************)
(* Claims about IsValidConversion (checked under SpecConversion).          *)
(***************************************************************************)
\* What the request asks for, before any remainder, from the supply the call got.
AskedSupply == AfterMinOutputs(supplyBefore, inputs, minOutputs)
\* AskedSupply with r more units of the remainder type.
WithRemainder(r) == [AskedSupply EXCEPT ![extraType] = @ + r]

\* C1 as stated: whenever IsValidConversion returns true, cash^2 + bond^2 after
\* the call equals its value before the call.
C1_PostEqualsPre ==
    callState = "true" => InvariantSq(totalSupply) = InvariantSq(supplyBefore)

\* C1 as amended: whenever IsValidConversion returns true, cash^2 + bond^2 after
\* the call is at most its value before the call and falls short of it by at
\* most twice the post-call supply of the remainder type (the remainder is a
\* floored square root).
C1_PostWithinRounding ==
    callState = "true" =>
        /\ InvariantSq(totalSupply) <= InvariantSq(supplyBefore)
        /\ InvariantSq(supplyBefore) - InvariantSq(totalSupply) <= 2 * totalSupply[extraType]

\* A successful call whose remainder is positive and still leaves the sum of
\* squares short of the pre-call value.
C1_Witness ==
    /\ callState = "true"
    /\ extraOutput > 0
    /\ InvariantSq(totalSupply) < InvariantSq(supplyBefore)

\* C2: IsValidConversion returns true exactly when the sum of squares of
\* supply + minOutputs - inputs is at most the pre-call cash^2 + bond^2.
C2_AcceptsExactlyWithinInvariant ==
    callState # "call" =>
        ((callState = "true") <=>
            (AskedSupply[CASH] * AskedSupply[CASH] + AskedSupply[BOND] * AskedSupply[BOND]
                <= supplyBefore[CASH] * supplyBefore[CASH]
                    + supplyBefore[BOND] * supplyBefore[BOND]))

\* A request that lands exactly on the curve and is accepted.
C2_Witness ==
    /\ callState = "true"
    /\ inputs # minOutputs
    /\ InvariantSq(AskedSupply) = InvariantSq(supplyBefore)

\* C3: on success the remainder is non-negative, it is what the call added to
\* the remainder type, and it is the largest r for which supply + minOutputs -
\* inputs plus r on the remainder type has cash^2 + bond^2 not above the
\* pre-call value.
C3_RemainderIsLargest ==
    callState = "true" =>
        /\ extraOutput >= 0
        /\ totalSupply = WithRemainder(extraOutput)
        /\ InvariantSq(WithRemainder(extraOutput)) <= InvariantSq(supplyBefore)
        /\ \A r \in (extraOutput + 1)..(extraOutput + 2 * MaxAmount + 2) :
              InvariantSq(WithRemainder(r)) > InvariantSq(supplyBefore)

\* A successful call that returns a positive remainder.
C3_Witness ==
    /\ callState = "true"
    /\ extraOutput > 0
    /\ inputs[Other(extraType)] > 0

\* C4: when IsValidConversion returns false, the supply and the remainder
\* parameter are as they were before the call.
C4_FailureLeavesArguments ==
    callState = "false" =>
        /\ totalSupply = supplyBefore
        /\ extraOutput = extraBefore

\* A rejected call made with a nonzero value in the remainder parameter.
C4_Witness ==
    /\ callState = "false"
    /\ extraBefore # 0
    /\ supplyBefore # ZeroPair

(***************************************************************************)
(* Claims about the pool (checked under SpecPool).                         *)
(***************************************************************************)
\* The in-pool ancestors of entry it: what it reaches through the inputs of
\* pool transactions, itself left out.
InPoolAncestors(it) ==
    LET live == DOMAIN pool.mapTx
    IN  Reach([i \in TxIds |-> txs[i].parents \cap live], txs[it].parents \cap live, {})

SumOver(S, f(_)) == FoldSet(LAMBDA s, a : s + f(a), 0, S)

\* C5: after any sequence of admissions (addUnchecked) and removals
\* (removeRecursive, removeForBlock, Expire, TrimToSize), every entry of the
\* pool has size, per-currency modified fees, sigop cost and count with
\* ancestors equal to its own plus those of all its in-pool ancestors.
C5_AncestorAggregatesExact ==
    ~pool.aborted =>
        \A it \in DOMAIN pool.mapTx :
            LET e == pool.mapTx[it]
                with == InPoolAncestors(it) \cup {it}
            IN  /\ e.nSizeWithAncestors = SumOver(with, LAMBDA a : GetTxSize(pool.mapTx[a]))
                /\ \A t \in AmountTypes :
                      e.nModAllFeesWithAncestors[t]
                          = SumOver(with, LAMBDA a : pool.mapTx[a].m_all_modified_fees[t])
                /\ e.nSigOpCostWithAncestors = SumOver(with, LAMBDA a : pool.mapTx[a].sigOpCost)
                /\ e.nCountWithAncestors = Cardinality(with)

\* An entry that still has an ancestor in the pool after a block took one of
\* its parents and a later removal took something else.
C5_Witness ==
    /\ ~pool.aborted
    /\ trim.phase = "idle"
    /\ pool.nTransactionsUpdated >= 4
    /\ \E it \in DOMAIN pool.mapTx :
          /\ txs[it].parents \cap confirmed # {}
          /\ txs[it].parents \cap DOMAIN pool.mapTx # {}


(***************************************************************************)
(* Claims about block assembly (checked under SpecAssembler).              *)
(***************************************************************************)
\* The place of the pool transaction it in the block, 0 if it is not there.
PlaceInBlock(it) ==
    IF \E k \in DOMAIN ba.vtx : ba.vtx[k] = it
    THEN CHOOSE k \in DOMAIN ba.vtx : ba.vtx[k] = it ELSE 0

IsCashToBond(info) ==
    info.present /\ info.inputs[CASH] > info.minOutputs[CASH]
                 /\ info.inputs[BOND] < info.minOutputs[BOND]
IsBondToCash(info) ==
    info.present /\ info.inputs[CASH] < info.minOutputs[CASH]
                 /\ info.inputs[BOND] > info.minOutputs[BOND]
\* The conversion of the pool transaction it against supply.
ConversionAt(supply, it) ==
    IsValidConversion(supply, txs[it].conversionInfo.inputs,
                      txs[it].conversionInfo.minOutputs,
                      txs[it].conversionInfo.remainderType, 0)
\* The deadline of the conversion has passed for the block being assembled.
DeadlinePassed(info) ==
    info.present /\ info.nDeadline # 0 /\ info.nDeadline < chain.nHeight + 1
\* Nothing but the conversion rate can keep the pool transaction it out of the
\* block: it is final and its deadline has not passed.
Includable(it) ==
    /\ IsFinalTx(txs[it], chain.nHeight + 1, chain.medianTimePast)
    /\ ~DeadlinePassed(txs[it].conversionInfo)

\* The pool of the deferred-retry scenario: A turns bond into cash and is
\* invalid at the tip supply, B turns cash into bond, is valid at the tip
\* supply and leaves a supply at which A is valid; neither has a parent or a
\* child in the pool, no other pool transaction is a conversion, both meet the
\* fee floor and the block has room for the whole pool.
DeferredRetryScenario(A, B) ==
    /\ A # B
    /\ IsBondToCash(txs[A].conversionInfo)
    /\ IsCashToBond(txs[B].conversionInfo)
    /\ \A it \in {A, B} :
          /\ Includable(it)
          /\ pool.mapTx[it].m_parents = {}
          /\ pool.mapTx[it].m_children = {}
          /\ pool.mapTx[it].m_modified_fee
                >= GetFee(ba.blockMinFeeRate, GetTxSize(pool.mapTx[it]))
    /\ \A it \in (DOMAIN pool.mapTx) \ {A, B} : ~txs[it].conversionInfo.present
    /\ ~ConversionAt(chain.totalSupply, A).ok
    /\ ConversionAt(chain.totalSupply, B).ok
    /\ ConversionAt(ConversionAt(chain.totalSupply, B).supply, A).ok
    /\ 4000 + WITNESS_SCALE_FACTOR
                * SumOver(DOMAIN pool.mapTx, LAMBDA it : GetTxSize(pool.mapTx[it]))
          < ba.nBlockMaxWeight
    /\ 400 + SumOver(DOMAIN pool.mapTx, LAMBDA it : pool.mapTx[it].sigOpCost)
          < MAX_BLOCK_SIGOPS_COST

\* C6: if the pool holds a bond-to-cash conversion A that is invalid at the
\* tip supply and an independent cash-to-bond conversion B that is valid at
\* the tip supply and after which A is valid, and both meet the fee floor and
\* fit the block, then the assembled block contains both, B before A,
\* whichever of the two the fee ordering considers first.
C6_DeferredConversionIncluded ==
    apt.pc = "returned" =>
        \A A, B \in DOMAIN pool.mapTx :
            DeferredRetryScenario(A, B) =>
                /\ PlaceInBlock(B) # 0
                /\ PlaceInBlock(A) > PlaceInBlock(B)

\* The scenario with A ahead of B in the ancestor_score index: A was
\* considered first, deferred, and retried after B.
C6_Witness ==
    /\ apt.pc = "returned"
    /\ \E A, B \in DOMAIN pool.mapTx :
          /\ DeferredRetryScenario(A, B)
          /\ CompareTxMemPoolEntryByAncestorFee(EntryScore(pool, A), EntryScore(pool, B))
          /\ PlaceInBlock(A) > PlaceInBlock(B)
          /\ PlaceInBlock(B) # 0

RECURSIVE ConversionsApplied(_, _)
\* The supply once the conversion of every conversion transaction of vtx was
\* applied to it, in the order of vtx; ok tells whether every one of them was
\* valid where it stood.
ConversionsApplied(supply, vtx) ==
    IF vtx = <<>> THEN [ok |-> TRUE, supply |-> supply]
    ELSE IF ~txs[Head(vtx)].conversionInfo.present
    THEN ConversionsApplied(supply, Tail(vtx))
    ELSE IF ~ConversionAt(supply, Head(vtx)).ok THEN [ok |-> FALSE, supply |-> supply]
    ELSE ConversionsApplied(ConversionAt(supply, Head(vtx)).supply, Tail(vtx))

\* C7: when CreateNewBlock returns, the header's cashSupply and bondSupply are
\* the tip's supply with the conversion of every conversion transaction of the
\* block applied exactly once, in block order, plus the subsidy computed from
\* that post-conversion supply.
C7_HeaderSupplyReflectsConversions ==
    apt.pc = "returned" =>
        LET applied == ConversionsApplied(chain.totalSupply, ba.vtx)
            reward == GetBlockSubsidy(ba.nHeight, applied.supply)
        IN  /\ applied.ok
            /\ ba.cashSupply = applied.supply[CASH] + reward[CASH]
            /\ ba.bondSupply = applied.supply[BOND] + reward[BOND]

\* C8: in every block built by addPackageTxs no pool transaction appears
\* twice, and every transaction appears after all of its in-pool parents.
C8_BlockOrdered ==
    /\ \A j, k \in DOMAIN ba.vtx : j # k => ba.vtx[j] # ba.vtx[k]
    /\ \A k \in DOMAIN ba.vtx :
          \A p \in txs[ba.vtx[k]].parents \cap DOMAIN pool.mapTx :
              PlaceInBlock(p) # 0 /\ PlaceInBlock(p) < k

\* A block of three transactions, the last of which has both others for
\* parents.
C8_Witness ==
    /\ apt.pc = "returned"
    /\ Len(ba.vtx) = MaxTx
    /\ Cardinality(txs[ba.vtx[MaxTx]].parents) = MaxTx - 1
    /\ ba.vtx[MaxTx] < ba.vtx[1]

\* C9 as stated: at every point of block assembly nBlockWeight is strictly
\* below nBlockMaxWeight and nBlockSigOpsCost strictly below
\* MAX_BLOCK_SIGOPS_COST.
C9_StrictlyBelowLimits ==
    apt.pc # "idle" =>
        /\ ba.nBlockWeight < ba.nBlockMaxWeight
        /\ ba.nBlockSigOpsCost < MAX_BLOCK_SIGOPS_COST

\* C9 as amended: at every point of block assembly nBlockSigOpsCost is
\* strictly below MAX_BLOCK_SIGOPS_COST and nBlockWeight is at most
\* nBlockMaxWeight, strictly below it once a transaction is in the block or
\* when nBlockMaxWeight is above the 4000 units reserved for the coinbase; and
\* a package is appended, in the primary loop or in a drain, only if its
\* tracked size (at 4 weight units per vbyte) and sigop cost keep both strictly
\* under their limits.
C9_WithinLimits ==
    apt.pc # "idle" =>
        /\ ba.nBlockSigOpsCost < MAX_BLOCK_SIGOPS_COST
        /\ ba.nBlockWeight <= ba.nBlockMaxWeight
        /\ (ba.nBlockTx > 0 \/ ba.nBlockMaxWeight > 4000) =>
               ba.nBlockWeight < ba.nBlockMaxWeight
        /\ (/\ apt.pc \in {"append", "drainAppend"}
            /\ Len(apt.sortedEntries) = Cardinality(apt.ancestors)) =>
               /\ ba.nBlockWeight + WITNESS_SCALE_FACTOR * apt.packageSize
                     < ba.nBlockMaxWeight
               /\ ba.nBlockSigOpsCost + apt.packageSigOpsCost < MAX_BLOCK_SIGOPS_COST

\* A drain has appended a package to a block that has no room for one more
\* transaction.
C9_Witness ==
    /\ apt.pc = "drainAppend"
    /\ apt.sortedEntries = <<>>
    /\ ba.nBlockWeight + WITNESS_SCALE_FACTOR * 100 >= ba.nBlockMaxWeight

\* C10: a package that fails TestPackageTransactions because a conversion's
\* nonzero deadline is below the height of the block being assembled is never
\* put into either deferred conversion queue (no entry of a queue has such a
\* conversion in its package), and the re-test of a deferred entry in a drain
\* fails only because of the conversion rate (the package it fails for is
\* final and holds no conversion whose deadline has passed).
C10_DeadlineFailuresNotDeferred ==
    apt.pc \in {"primary", "append", "drain", "drainAppend", "drainBreak"} =>
        /\ \A k \in DOMAIN apt.invalidConversionTxCash :
              \A a \in PackageOf(pool, ba, apt.invalidConversionTxCash[k].iter) :
                  ~DeadlinePassed(txs[a].conversionInfo)
        /\ \A k \in DOMAIN apt.invalidConversionTxBond :
              \A a \in PackageOf(pool, ba, apt.invalidConversionTxBond[k].iter) :
                  ~DeadlinePassed(txs[a].conversionInfo)
        /\ (/\ apt.pc = "drain"
            /\ DrainGoesOn(apt)
            /\ ConversionIt(apt).entry.iter \notin ba.inBlock \cup apt.failedValidConversion
            /\ ~TestPackageTransactions(pool, txs, ba,
                    PackageOf(pool, ba, ConversionIt(apt).entry.iter)).ok) =>
               \A a \in PackageOf(pool, ba, ConversionIt(apt).entry.iter) : Includable(a)

\* C11: every time the primary loop has appended a package that holds at
\* least one conversion transaction, the next step enters the drain of the two
\* deferred conversion queues (no primary candidate is selected first).
C11_DrainAfterConversionPackage ==
    [][(/\ apt.pc = "append"
        /\ apt.sortedEntries = <<>>
        /\ \E a \in apt.ancestors : txs[a].conversionInfo.present)
          => apt'.pc = "drain"]_vars

(***************************************************************************)
(* Claims about TrimToSize (checked under SpecPool).                       *)
(***************************************************************************)
\* The entries of the pool for which the predicate TrimToSize was called with
\* is true.
InvalidConversionsInPool == trim.check_invalid_conversion \cap DOMAIN pool.mapTx

\* The entries a step of TrimToSize takes out of the pool.
EvictedByStep == (DOMAIN pool.mapTx) \ (DOMAIN pool'.mapTx)

\* C12: in a TrimToSize call on a pool over its size limit, no step evicts an
\* entry for which the invalid-conversion predicate is false and which has no
\* predicate-true ancestor while an entry for which the predicate is true is
\* still in the pool.
C12_InvalidConversionsEvictedFirst ==
    [][(/\ trim.phase # "idle"
        /\ ~pool'.aborted
        /\ InvalidConversionsInPool # {})
          => \A it \in EvictedByStep :
                \/ it \in trim.check_invalid_conversion
                \/ InPoolAncestors(it) \cap trim.check_invalid_conversion # {}]_vars

\* The entries of the pool that descend from it.
InPoolDescendants(it) == {d \in DOMAIN pool.mapTx : it \in InPoolAncestors(d)}

\* TrimToSize returns in this step (the process has not crashed).
TrimToSizeReturns == trim.phase # "idle" /\ trim'.phase = "idle" /\ ~pool'.aborted

\* C13 as stated: TrimToSize called on a pool over its size limit evicts every
\* entry for which the invalid-conversion predicate holds: when the call
\* returns, no entry for which the predicate held is left in the pool.
C13_NoInvalidConversionLeft ==
    [][TrimToSizeReturns =>
          trim.check_invalid_conversion \cap DOMAIN pool'.mapTx = {}]_vars

\* C13 as amended: every step of TrimToSize evicts whole descendant closures
\* (no entry goes while one of its in-pool descendants stays); the first pass
\* evicts only entries for which the invalid-conversion predicate holds and
\* their descendants, and the eviction by lowest descendant feerate comes
\* only once that pass has ended; the call returns as soon as the pool is
\* within the size limit, so that when it returns the pool is within the
\* limit or empty (entries for which the predicate holds may be left).
C13_EvictsClosuresUntilWithinLimit ==
    [][(trim.phase # "idle" /\ ~pool'.aborted) =>
          /\ \A it \in EvictedByStep : InPoolDescendants(it) \subseteq EvictedByStep
          /\ trim.phase = "invalid" =>
                \A it \in EvictedByStep :
                    \/ it \in trim.check_invalid_conversion
                    \/ InPoolAncestors(it) \cap trim.check_invalid_conversion # {}
          /\ TrimToSizeReturns =>
                \/ DOMAIN pool'.mapTx = {}
                \/ DynamicMemoryUsage(pool') <= trim.sizelimit]_vars

\* The first pass has evicted an entry, the pool is within the limit, and an
\* entry for which the predicate holds is still in it: the call is about to
\* return.
C13_Witness ==
    /\ trim.phase = "invalid"
    /\ ~pool.aborted
    /\ DOMAIN pool.erased # {}
    /\ trim.mi \in DOMAIN pool.mapTx
    /\ DynamicMemoryUsage(pool) <= trim.sizelimit
    /\ InvalidConversionsInPool # {}

(***************************************************************************)
(* Claims about removeRecursive (checked under SpecPool).                  *)
(***************************************************************************)
\* The pool as the next call finds it: what the running call erased is gone.
Settled(P) == Enter(Finish(P))

\* removeRecursive(origTx) on the pool P changes nothing of it: entries,
\* aggregates, mapNextTx, totals and nTransactionsUpdated are as before and no
\* assert fails.
RemoveRecursiveIsNoOp(P, origTx) ==
    Finish(removeRecursive(Settled(P), origTx)) = Finish(Settled(P))

\* A pool entry spends an output of origTx.
HasSpenderInPool(P, origTx) == \E k \in TxIds : <<origTx, k>> \in DOMAIN P.mapNextTx

\* C14 as stated: once a removal of any kind (recursive, for a block, expiry,
\* trim) has taken a transaction out of the pool, removeRecursive for that
\* transaction is a no-op.
C14_RemoveRecursiveOfRemovedIsNoOp ==
    [][~pool'.aborted =>
          \A it \in EvictedByStep : RemoveRecursiveIsNoOp(pool', it)]_vars

\* C14 as amended: removeRecursive for a transaction that is not in the pool
\* is a no-op when no pool entry spends one of its outputs, and otherwise
\* removes exactly the entries that spend its outputs and their descendants;
\* a removal that does not confirm the transaction (recursive, conflict,
\* expiry, invalid conversion, trim) leaves no pool entry that spends an
\* output of what it removed, a removal for a block can leave such entries.
C14_NoOpUnlessChildrenLeft ==
    /\ [](~pool.aborted =>
            \A i \in TxIds \ DOMAIN pool.mapTx :
                LET P == Settled(pool)
                    Q == Finish(removeRecursive(P, i))
                    children == {c \in DOMAIN P.mapTx : i \in txs[c].parents}
                    gone == children \cup UNION {InPoolDescendants(c) : c \in children}
                IN  /\ ~Q.aborted
                    /\ DOMAIN Q.mapTx = (DOMAIN P.mapTx) \ gone
                    /\ ~HasSpenderInPool(P, i) => Q = Finish(P))
    /\ [][~pool'.aborted =>
            \A it \in EvictedByStep :
                it \notin confirmed' => ~HasSpenderInPool(pool', it)]_vars

\* A transaction was confirmed out of the pool and one of its children is
\* still there: removeRecursive for it would remove the child.
C14_Witness ==
    /\ trim.phase = "idle"
    /\ ~pool.aborted
    /\ \E i \in confirmed \ DOMAIN pool.mapTx : HasSpenderInPool(pool, i)
    /\ \E i \in TxIds \ (confirmed \cup DOMAIN pool.mapTx) : ~HasSpenderInPool(pool, i)

(***************************************************************************)
(* C15: the limit check of CalculateMemPoolAncestors.                      *)
(***************************************************************************)
\* The limits the check is asked about: one of the four is set.
CheckedLimits ==
    {[NoLimits EXCEPT !.ancestorCount = Limit(c)] : c \in LimitCounts}
    \cup {[NoLimits EXCEPT !.ancestorSize = Limit(s)] : s \in LimitSizes}
    \cup {[NoLimits EXCEPT !.descendantCount = Limit(c)] : c \in LimitCounts}
    \cup {[NoLimits EXCEPT !.descendantSize = Limit(s)] : s \in LimitSizes}

SizeOfAll(P, S) == SumOver(S, LAMBDA a : GetTxSize(EntryAt(P, a)))

AncestorCountHolds(setAncestors, limits) ==
    ~Exceeds(Cardinality(setAncestors) + 1, limits.ancestorCount)
AncestorSizeHolds(P, entry_size, setAncestors, limits) ==
    ~Exceeds(entry_size + SizeOfAll(P, setAncestors), limits.ancestorSize)
DescendantLimitsHold(P, entry_size, setAncestors, limits) ==
    \A a \in setAncestors :
        /\ ~Exceeds(EntryAt(P, a).nCountWithDescendants + 1, limits.descendantCount)
        /\ ~Exceeds(EntryAt(P, a).nSizeWithDescendants + entry_size, limits.descendantSize)

\* The calls a caller can make on the pool P: a transaction that is not in
\* the pool with parent search, an entry of the pool with its cached parents.
AncestorCalls(P) ==
    {[it |-> i, entry_size |-> GetVirtualTransactionSize(txs[i].nTxWeight, txs[i].sigOpCost,
                                                         nBytesPerSigOp),
      fSearchForParents |-> i \notin DOMAIN P.mapTx] : i \in TxIds}
AncestorsOfCall(P, c, limits) ==
    CalculateMemPoolAncestors(P, c.it, txs[c.it].parents, c.entry_size, limits,
                              c.fSearchForParents)
PoolAtRest == trim.phase = "idle" /\ ~pool.aborted

\* C15 (as stated): whenever CalculateMemPoolAncestors returns true, in either
\* parent-discovery mode, the entry with the returned ancestors is within all
\* four limits.
C15_TrueMeansAllFourLimitsHold ==
    PoolAtRest =>
        \A c \in AncestorCalls(Enter(pool)), limits \in CheckedLimits :
            LET P == Enter(pool)
                r == AncestorsOfCall(P, c, limits)
            IN  r.ok => /\ AncestorCountHolds(r.setAncestors, limits)
                        /\ AncestorSizeHolds(P, c.entry_size, r.setAncestors, limits)
                        /\ DescendantLimitsHold(P, c.entry_size, r.setAncestors, limits)

\* C15 (amended): whenever CalculateMemPoolAncestors returns true, no returned
\* ancestor's descendant count or size is pushed past its limit; the ancestor
\* size limit holds when the returned set is not empty; the ancestor count
\* limit holds when parents were searched and found, or when some returned
\* ancestor has parents of its own.
C15_TrueMeansCheckedLimitsHold ==
    PoolAtRest =>
        \A c \in AncestorCalls(Enter(pool)), limits \in CheckedLimits :
            LET P == Enter(pool)
                r == AncestorsOfCall(P, c, limits)
            IN  r.ok =>
                  /\ DescendantLimitsHold(P, c.entry_size, r.setAncestors, limits)
                  /\ r.setAncestors # {} =>
                        AncestorSizeHolds(P, c.entry_size, r.setAncestors, limits)
                  /\ (\/ c.fSearchForParents /\ r.setAncestors # {}
                      \/ \E a \in r.setAncestors : EntryAt(P, a).m_parents # {}) =>
                        AncestorCountHolds(r.setAncestors, limits)
                  /\ r.setAncestors = InPoolAncestors(c.it)
                        \cup (txs[c.it].parents \cap DOMAIN P.mapTx)

\* A pool where a call is accepted with ancestors in each mode and some call
\* is rejected.
C15_Witness ==
    /\ PoolAtRest
    /\ \A f \in BOOLEAN :
          \E c \in AncestorCalls(Enter(pool)), limits \in CheckedLimits :
              /\ c.fSearchForParents = f
              /\ AncestorsOfCall(Enter(pool), c, limits).ok
              /\ AncestorsOfCall(Enter(pool), c, limits).setAncestors # {}
    /\ \E c \in AncestorCalls(Enter(pool)), limits \in CheckedLimits :
          ~AncestorsOfCall(Enter(pool), c, limits).ok

(***************************************************************************)
(* C16: an admission the limit check rejects.                              *)
(***************************************************************************)
AdmissionRejected == admission'.tx \in TxIds /\ ~admission'.ok

\* The pool's own state: danglingUse records what the call before did with its
\* iterators and is no member of CTxMemPool.
PoolMembers(P) == [P EXCEPT !.danglingUse = FALSE]

\* C16: when admission is rejected by the ancestor/descendant limit check, the
\* pool is exactly as before the call: entries, parent/child links,
\* aggregates, the spent-outpoint index and the counters are unchanged.
C16_RejectedAdmissionLeavesPool ==
    [][(AdmissionRejected /\ admission' # admission) =>
            /\ PoolMembers(pool') = PoolMembers(pool)
            /\ admission'.tx \notin DOMAIN pool'.mapTx
            /\ ~CalculateMemPoolAncestors(Enter(pool), admission'.tx,
                    txs[admission'.tx].parents,
                    GetVirtualTransactionSize(txs[admission'.tx].nTxWeight,
                                              txs[admission'.tx].sigOpCost, nBytesPerSigOp),
                    admission'.limits, TRUE).ok]_vars

\* An admission has just been rejected by the limit check, with entries in the pool.
C16_Witness ==
    /\ admission.tx \in TxIds
    /\ ~admission.ok
    /\ txs[admission.tx].parents \cap DOMAIN pool.mapTx # {}
    /\ pool.mapNextTx # << >>

(***************************************************************************)
(* C17: the pool lock around addPackageTxs.                                *)
(***************************************************************************)
\* C17: no pool mutation interleaves with a block-assembly pass: from the
\* start of addPackageTxs to its end the pool is what it was, and the pass
\* never runs over a pool that a TrimToSize has evicted from part-way.
C17_NoMutationDuringPass ==
    /\ [](MinerHoldsCs => trim.phase = "idle" /\ ~pool.aborted)
    /\ [][MinerHoldsCs => <<pool, trim, admission>>' = <<pool, trim, admission>>]_vars

\* addPackageTxs is in its drain over a pool that calls have admitted to and
\* evicted from, and the pool is over a size limit TrimToSize is called with.
C17_Witness ==
    /\ apt.pc = "drainAppend"
    /\ pool.nTransactionsUpdated >= MaxTx
    /\ Cardinality(DOMAIN pool.mapTx) = 2
    /\ \E sizelimit \in SizeLimits : DynamicMemoryUsage(pool) > sizelimit

(***************************************************************************)
(* boost::multiprecision integers (int128_t, int256_t) and int64_t amounts *)
(* that are not negative: a number is the sequence of its digits in base   *)
(* LimbBase, the least significant first, with no leading zero digit.      *)
(***************************************************************************)
LimbBase == 10000

RECURSIVE Normalized(_)
Normalized(a) ==
    IF a # <<>> /\ a[Len(a)] = 0 THEN Normalized(SubSeq(a, 1, Len(a) - 1)) ELSE a

RECURSIVE Wide(_)
\* The number n, an integer of the model, as a wide number.
Wide(n) == IF n = 0 THEN <<>> ELSE <<n % LimbBase>> \o Wide(n \div LimbBase)

\* -1, 0 or 1 as a is less than, equal to or greater than b.
RECURSIVE WideCompareFrom(_, _, _)
WideCompareFrom(a, b, k) ==
    IF k = 0 THEN 0
    ELSE IF a[k] < b[k] THEN -1
    ELSE IF a[k] > b[k] THEN 1
    ELSE WideCompareFrom(a, b, k - 1)
WideCompare(a, b) ==
    IF Len(a) < Len(b) THEN -1
    ELSE IF Len(a) > Len(b) THEN 1
    ELSE WideCompareFrom(a, b, Len(a))
WideLess(a, b) == WideCompare(a, b) < 0
WideLessEq(a, b) == WideCompare(a, b) <= 0

WideLimb(a, k) == IF k <= Len(a) THEN a[k] ELSE 0

RECURSIVE WideAddFrom(_, _, _, _)
WideAddFrom(a, b, k, carry) ==
    IF k > Len(a) /\ k > Len(b)
    THEN IF carry = 0 THEN <<>> ELSE <<carry>>
    ELSE LET d == WideLimb(a, k) + WideLimb(b, k) + carry
         IN  <<d % LimbBase>> \o WideAddFrom(a, b, k + 1, d \div LimbBase)
WideAdd(a, b) == WideAddFrom(a, b, 1, 0)

RECURSIVE WideSubFrom(_, _, _, _)
WideSubFrom(a, b, k, borrow) ==
    IF k > Len(a) THEN <<>>
    ELSE LET d == a[k] - WideLimb(b, k) - borrow
         IN  IF d < 0 THEN <<d + LimbBase>> \o WideSubFrom(a, b, k + 1, 1)
                      ELSE <<d>> \o WideSubFrom(a, b, k + 1, 0)
\* a - b, for b not above a.
WideSub(a, b) == Normalized(WideSubFrom(a, b, 1, 0))

RECURSIVE WideMulLimbFrom(_, _, _, _)
WideMulLimbFrom(a, d, k, carry) ==
    IF k > Len(a)
    THEN IF carry = 0 THEN <<>> ELSE <<carry>>
    ELSE LET p == a[k] * d + carry
         IN  <<p % LimbBase>> \o WideMulLimbFrom(a, d, k + 1, p \div LimbBase)
RECURSIVE WideMul(_, _)
WideMul(a, b) ==
    IF a = <<>> \/ b = <<>> THEN <<>>
    ELSE Normalized(WideAdd(WideMulLimbFrom(a, b[1], 1, 0), <<0>> \o WideMul(a, Tail(b))))

WideOne == <<1>>

\* The greatest digit d in lo..hi with d * b <= a.
RECURSIVE QuotientDigit(_, _, _, _)
QuotientDigit(a, b, lo, hi) ==
    IF lo >= hi THEN lo
    ELSE LET mid == (lo + hi + 1) \div 2
         IN  IF WideLessEq(WideMulLimbFrom(b, mid, 1, 0), a)
             THEN QuotientDigit(a, b, mid, hi)
             ELSE QuotientDigit(a, b, lo, mid - 1)

\* Long division of the digits k and above of a by b: the quotient q and the
\* remainder r.
RECURSIVE WideDivFrom(_, _, _)
WideDivFrom(a, b, k) ==
    IF k > Len(a) THEN [q |-> <<>>, r |-> <<>>]
    ELSE LET above == WideDivFrom(a, b, k + 1)
             cur == Normalized(<<a[k]>> \o above.r)
             d == QuotientDigit(cur, b, 0, LimbBase - 1)
         IN  [q |-> <<d>> \o above.q,
              r |-> WideSub(cur, Normalized(WideMulLimbFrom(b, d, 1, 0)))]
\* a / b for b above 0: the quotient of the wide integers, which rounds
\* toward zero.
WideDiv(a, b) == Normalized(WideDivFrom(a, b, 1).q)

\* d at digit k of a number with no other digit.
AtDigit(d, k) == IF d = 0 THEN <<>> ELSE [j \in 1..k |-> IF j = k THEN d ELSE 0]

\* The greatest digit d in lo..hi with (above + d at digit k)^2 <= n.
RECURSIVE RootDigit(_, _, _, _, _)
RootDigit(n, above, k, lo, hi) ==
    IF lo >= hi THEN lo
    ELSE LET mid == (lo + hi + 1) \div 2
             r == WideAdd(above, AtDigit(mid, k))
         IN  IF WideLessEq(WideMul(r, r), n) THEN RootDigit(n, above, k, mid, hi)
                                             ELSE RootDigit(n, above, k, lo, mid - 1)

\* The digits k and above of the root of n.
RECURSIVE WideSqrtFrom(_, _)
WideSqrtFrom(n, k) ==
    IF 2 * k > Len(n) + 1 THEN <<>>
    ELSE LET above == WideSqrtFrom(n, k + 1)
         IN  WideAdd(above, AtDigit(RootDigit(n, above, k, 0, LimbBase - 1), k))

\* The root rounded up.
WideSqrt_RoundedUp(n) ==
    LET r == WideSqrtFrom(n, 1)
    IN  IF WideMul(r, r) = n THEN r ELSE WideAdd(r, WideOne)
\* boost::multiprecision::sqrt of an integer: the greatest r with r * r <= n.
WideSqrt(n) == WideSqrtFrom(n, 1)

\* numeric_limits<int64_t>::max(), numeric_limits<uint64_t>::max(), BASE_FACTOR
\* and MAX_MONEY.
INT64_MAX == <<5807, 5477, 368, 3372, 922>>
UINT64_MAX == <<1615, 955, 737, 6744, 1844>>
BASE_FACTOR == <<0, 0, 100>>
MAX_MONEY == <<0, 0, 0, 2100>>

\* convert_to<CAmount>() of a wide integer that is not negative: what does
\* not fit comes out as the greatest CAmount.
ConvertToCAmount(a) == IF WideLess(INT64_MAX, a) THEN INT64_MAX ELSE a

ScaleAmount(nValue, scaleFactor) ==
    ConvertToCAmount(WideDiv(WideMul(nValue, scaleFactor), BASE_FACTOR))

\* The loop of DescaleAmount.  baseAmount++ on the greatest CAmount is a
\* signed overflow: overflow tells that the loop came to it.
RECURSIVE DescaleAmountLoop(_, _, _)
DescaleAmountLoop(baseAmount, scaledValue, scaleFactor) ==
    IF ~WideLess(ScaleAmount(baseAmount, scaleFactor), scaledValue)
    THEN [overflow |-> FALSE, baseAmount |-> baseAmount]
    ELSE IF baseAmount = INT64_MAX
    THEN [overflow |-> TRUE, baseAmount |-> baseAmount]
    ELSE DescaleAmountLoop(WideAdd(baseAmount, WideOne), scaledValue, scaleFactor)

DescaleAmount(scaledValue, scaleFactor) ==
    DescaleAmountLoop(
        ConvertToCAmount(WideDiv(WideMul(scaledValue, BASE_FACTOR), scaleFactor)),
        scaledValue, scaleFactor)

\* cash^2 + bond^2 of a supply (invariant_sq_in), taken wide.
WideInvariantSq(supply) ==
    WideAdd(WideMul(supply[CASH], supply[CASH]),
            WideMul(supply[BOND], supply[BOND]))

\* CalculateOutputAmount that leaves inputAmount out of new_input_sq.
WideCalculateOutputAmount_InputNotTaken(supply, inputAmount, inputType) ==
    IF WideLess(supply[inputType], inputAmount) THEN <<>>
    ELSE WideSub(ConvertToCAmount(WideSqrt(
                     WideSub(WideInvariantSq(supply),
                             WideMul(supply[inputType], supply[inputType])))),
                 supply[Other(inputType)])

\* CalculateOutputAmount with its squares in int128_t.
WideCalculateOutputAmount(supply, inputAmount, inputType) ==
    IF WideLess(supply[inputType], inputAmount) THEN <<>>
    ELSE LET invariant_sq_in == WideInvariantSq(supply)
             left == WideSub(supply[inputType], inputAmount)
             new_input_sq == WideMul(left, left)
             new_output == ConvertToCAmount(WideSqrt(WideSub(invariant_sq_in, new_input_sq)))
         IN  WideSub(new_output, supply[Other(inputType)])

\* Consensus::CalculateOutputAmount
Consensus_CalculateOutputAmount(supply, inputAmount, inputType) ==
    IF WideLess(supply[inputType], inputAmount) THEN <<>>
    ELSE LET invariant_sq_in == WideInvariantSq(supply)
             left == WideSub(supply[inputType], inputAmount)
             new_input_sq == WideMul(left, left)
             new_output == ConvertToCAmount(WideSqrt(WideSub(invariant_sq_in, new_input_sq)))
         IN  WideSub(new_output, supply[Other(inputType)])

\* CalculateInputAmount whose square root is rounded up.
WideCalculateInputAmount_RootRoundedUp(supply, outputAmount, outputType) ==
    LET invariant_sq_in == WideInvariantSq(supply)
        grown == WideAdd(supply[outputType], outputAmount)
        new_output_sq == WideMul(grown, grown)
    IN  IF WideLess(invariant_sq_in, new_output_sq) THEN <<>>
        ELSE LET root == WideSqrt(WideSub(invariant_sq_in, new_output_sq))
                 new_input == IF WideMul(root, root) = WideSub(invariant_sq_in, new_output_sq)
                              THEN ConvertToCAmount(root)
                              ELSE ConvertToCAmount(WideAdd(root, WideOne))
             IN  WideSub(supply[Other(outputType)], new_input)

\* CalculateInputAmount with its squares in int128_t.
WideCalculateInputAmount(supply, outputAmount, outputType) ==
    LET invariant_sq_in == WideInvariantSq(supply)
        grown == WideAdd(supply[outputType], outputAmount)
        new_output_sq == WideMul(grown, grown)
    IN  IF WideLess(invariant_sq_in, new_output_sq) THEN <<>>
        ELSE LET new_input == ConvertToCAmount(WideSqrt(WideSub(invariant_sq_in, new_output_sq)))
             IN  WideSub(supply[Other(outputType)], new_input)

\* GetConvertedAmount with its product in int256_t.  convertedAmount += 1 on
\* the greatest CAmount is a signed overflow: overflow tells that the call
\* came to it.
WideGetConvertedAmount(supply, amount, amountType, roundedUp) ==
    IF supply[Other(amountType)] = <<>>
    THEN [overflow |-> FALSE,
          value |-> WideCalculateOutputAmount(supply, amount, amountType)]
    ELSE IF supply[amountType] = <<>>
    THEN [overflow |-> FALSE,
          value |-> WideCalculateInputAmount(supply, amount, amountType)]
    ELSE LET convertedAmount ==
                 ConvertToCAmount(WideDiv(WideMul(amount, supply[amountType]),
                                          supply[Other(amountType)]))
         IN  IF ~roundedUp THEN [overflow |-> FALSE, value |-> convertedAmount]
             ELSE IF convertedAmount = INT64_MAX
             THEN [overflow |-> TRUE, value |-> convertedAmount]
             ELSE [overflow |-> FALSE, value |-> WideAdd(convertedAmount, WideOne)]

(***************************************************************************)
(* The amount arithmetic under its callers (SpecAmount).                   *)
(***************************************************************************)
\* The amounts, scale factors and supplies the calls are made with.
ScaledValues ==
    {<<>>, Wide(1), Wide(7), Wide(99999), Wide(1000000000), MAX_MONEY}
ScaleFactors ==
    {Wide(1), Wide(3), Wide(2277), <<3333, 3333, 33>>, BASE_FACTOR, <<1, 0, 100>>,
     <<0, 0, 150>>, UINT64_MAX}
SupplyValues == {<<>>, Wide(3), Wide(4), Wide(1000000000), MAX_MONEY}
InputAmounts ==
    {<<>>, Wide(1), Wide(3), Wide(100000000), Wide(1000000000), MAX_MONEY}

AmountCall(op, supply, amount, amountType, scaleFactor, roundedUp) ==
    [pc |-> "call", op |-> op, totalSupply |-> supply, amount |-> amount,
     amountType |-> amountType, scaleFactor |-> scaleFactor, roundedUp |-> roundedUp,
     result |-> <<>>, rescaled |-> <<>>]

AmountCalls ==
    {AmountCall("DescaleAmount", Pair(<<>>, <<>>), a, CASH, f, FALSE) :
        a \in ScaledValues, f \in ScaleFactors}
    \cup {AmountCall(op, Pair(c, b), a, t, WideOne, FALSE) :
            op \in {"CalculateOutputAmount", "Consensus::CalculateOutputAmount"},
            c \in SupplyValues, b \in SupplyValues, a \in InputAmounts, t \in AmountTypes}
    \cup {AmountCall("GetConvertedAmount", Pair(c, b), a, t, WideOne, r) :
            c \in SupplyValues, b \in SupplyValues, a \in InputAmounts, t \in AmountTypes,
            r \in BOOLEAN}

InitAmount ==
    /\ ConversionIdle
    /\ PoolIdle
    /\ AssemblerIdle
    /\ amt \in AmountCalls
    /\ wide = [pc |-> "idle"]
    /\ mining = NoMining

\* DescaleAmount is called.  When its loop comes to the signed overflow the
\* behaviour is undefined: a build traps on it or wraps, and after a wrap
\* the loop goes on for ever.
CallDescaleAmount ==
    /\ amt.pc = "call"
    /\ amt.op = "DescaleAmount"
    /\ LET d == DescaleAmount(amt.amount, amt.scaleFactor)
       IN  IF d.overflow
           THEN \E fate \in {"crashed", "hung"} : amt' = [amt EXCEPT !.pc = fate]
           ELSE amt' = [amt EXCEPT !.pc = "returned", !.result = d.baseAmount]
    /\ UNCHANGED <<convVars, poolVars, asmVars, wide, mining>>

\* The caller scales what DescaleAmount returned.
CallScaleAmount ==
    /\ amt.pc = "returned"
    /\ amt.op = "DescaleAmount"
    /\ amt' = [amt EXCEPT !.pc = "rescaled",
                          !.rescaled = ScaleAmount(amt.result, amt.scaleFactor)]
    /\ UNCHANGED <<convVars, poolVars, asmVars, wide, mining>>

CallCalculateOutputAmount ==
    /\ amt.pc = "call"
    /\ amt.op = "CalculateOutputAmount"
    /\ amt' = [amt EXCEPT !.pc = "returned",
                          !.result = WideCalculateOutputAmount(amt.totalSupply, amt.amount,
                                                               amt.amountType)]
    /\ UNCHANGED <<convVars, poolVars, asmVars, wide, mining>>

CallConsensusCalculateOutputAmount ==
    /\ amt.pc = "call"
    /\ amt.op = "Consensus::CalculateOutputAmount"
    /\ amt' = [amt EXCEPT !.pc = "returned",
                          !.result = Consensus_CalculateOutputAmount(amt.totalSupply,
                                         amt.amount, amt.amountType)]
    /\ UNCHANGED <<convVars, poolVars, asmVars, wide, mining>>

\* GetConvertedAmount is called.  When it comes to the signed overflow the
\* behaviour is undefined: a build traps on it or wraps to the least CAmount.
CallGetConvertedAmount ==
    /\ amt.pc = "call"
    /\ amt.op = "GetConvertedAmount"
    /\ LET g == WideGetConvertedAmount(amt.totalSupply, amt.amount, amt.amountType,
                                       amt.roundedUp)
       IN  IF g.overflow
           THEN \E fate \in {"crashed", "wrapped"} : amt' = [amt EXCEPT !.pc = fate]
           ELSE amt' = [amt EXCEPT !.pc = "returned", !.result = g.value]
    /\ UNCHANGED <<convVars, poolVars, asmVars, wide, mining>>

NextAmount ==
    \/ CallGetConvertedAmount
    \/ CallDescaleAmount
    \/ CallScaleAmount
    \/ CallCalculateOutputAmount
    \/ CallConsensusCalculateOutputAmount

SpecAmount == InitAmount /\ [][NextAmount]_vars

(***************************************************************************)
(* C18: ScaleAmount of DescaleAmount.                                      *)
(***************************************************************************)
\* C18: for every amount >= 0 and factor > 0, DescaleAmount(amount, factor)
\* returns a value that ScaleAmount takes back to at least amount.
C18_ScaleOfDescaleCovers ==
    (amt.op = "DescaleAmount" /\ amt.pc # "call") =>
        /\ amt.pc \in {"returned", "rescaled"}
        /\ amt.pc = "rescaled" => WideLessEq(amt.amount, amt.rescaled)

(***************************************************************************)
(* C19, C20: CalculateOutputAmount.                                        *)
(***************************************************************************)
OutputReturned ==
    /\ amt.op \in {"CalculateOutputAmount", "Consensus::CalculateOutputAmount"}
    /\ amt.pc = "returned"

\* The call of the spec's example has returned.
C19_Witness ==
    /\ OutputReturned
    /\ amt.op = "CalculateOutputAmount"
    /\ amt.totalSupply = Pair(Wide(1000000000), Wide(1000000000))
    /\ amt.amount = Wide(100000000)
    /\ amt.amountType = CASH

\* r is floor(sqrt(2 * 10^18 - 900,000,000^2)).
IsExampleRoot(r) ==
    LET n == WideSub(WideMul(Wide(2), WideMul(Wide(1000000000), Wide(1000000000))),
                     WideMul(Wide(900000000), Wide(900000000)))
    IN  /\ WideLessEq(WideMul(r, r), n)
        /\ WideLess(n, WideMul(WideAdd(r, WideOne), WideAdd(r, WideOne)))

\* C19 (as stated): on supply {10^9, 10^9} with input 10^8 of CASH,
\* CalculateOutputAmount returns floor(sqrt(2 * 10^18 - 900,000,000^2)) - 10^9,
\* and that is 90,453,403.
C19_ExampleIs90453403 ==
    C19_Witness =>
        /\ IsExampleRoot(WideAdd(amt.result, Wide(1000000000)))
        /\ amt.result = Wide(90453403)

\* C19 (amended): on supply {10^9, 10^9} with input 10^8 of CASH,
\* CalculateOutputAmount returns floor(sqrt(2 * 10^18 - 900,000,000^2)) - 10^9,
\* and that is 90,871,211.
C19_ExampleIs90871211 ==
    C19_Witness =>
        /\ IsExampleRoot(WideAdd(amt.result, Wide(1000000000)))
        /\ amt.result = Wide(90871211)

\* C20: CalculateOutputAmount returns 0 when inputAmount > supply[inputType],
\* and otherwise floor(sqrt(cash^2 + bond^2 - (supply[inputType] - inputAmount)^2))
\* - supply[other type]; so does Consensus::CalculateOutputAmount.
C20_OutputIsRootLessOther ==
    OutputReturned =>
        IF WideLess(amt.totalSupply[amt.amountType], amt.amount)
        THEN amt.result = <<>>
        ELSE LET left == WideSub(amt.totalSupply[amt.amountType], amt.amount)
                 n == WideSub(WideInvariantSq(amt.totalSupply), WideMul(left, left))
                 r == WideAdd(amt.result, amt.totalSupply[Other(amt.amountType)])
             IN  /\ WideLessEq(WideMul(r, r), n)
                 /\ WideLess(n, WideMul(WideAdd(r, WideOne), WideAdd(r, WideOne)))

\* Consensus::CalculateOutputAmount has returned what the conversion of a
\* whole supply of MAX_MONEY gives against 10^9 of the other type.
C20_Witness ==
    /\ OutputReturned
    /\ amt.op = "Consensus::CalculateOutputAmount"
    /\ amt.amount = MAX_MONEY
    /\ amt.totalSupply[amt.amountType] = MAX_MONEY
    /\ amt.totalSupply[Other(amt.amountType)] = Wide(1000000000)
    /\ amt.result # <<>>

(***************************************************************************)
(* C21: GetConvertedAmount.                                                *)
(***************************************************************************)
ConvertedReturned == amt.op = "GetConvertedAmount" /\ amt.pc = "returned"

\* q is floor(a / b) for b > 0.
IsFloorOfQuotient(q, a, b) ==
    /\ WideLessEq(WideMul(q, b), a)
    /\ WideLess(a, WideMul(WideAdd(q, WideOne), b))

\* C21: GetConvertedAmount returns floor(amount * supply[amountType] /
\* supply[other type]), plus one when roundedUp is set, whenever both supplies
\* are nonzero; CalculateOutputAmount(supply, amount, amountType) when
\* supply[other type] is 0; CalculateInputAmount(supply, amount, amountType)
\* when only supply[amountType] is 0.
C21_ConvertedAmountAsStated ==
    (amt.op = "GetConvertedAmount" /\ amt.pc # "call") =>
        /\ amt.pc = "returned"
        /\ LET supply == amt.totalSupply
               t == amt.amountType
           IN  IF supply[Other(t)] = <<>>
               THEN amt.result = WideCalculateOutputAmount(supply, amt.amount, t)
               ELSE IF supply[t] = <<>>
               THEN amt.result = WideCalculateInputAmount(supply, amt.amount, t)
               ELSE IF amt.roundedUp
               THEN /\ amt.result # <<>>
                    /\ IsFloorOfQuotient(WideSub(amt.result, WideOne),
                                         WideMul(amt.amount, supply[t]), supply[Other(t)])
               ELSE IsFloorOfQuotient(amt.result, WideMul(amt.amount, supply[t]),
                                      supply[Other(t)])

(***************************************************************************)
(* UpdateNormalizedFees over a pool (SpecFees).                            *)
(***************************************************************************)
\* The supplies UpdateNormalizedFees is called with.
UpdateSupplies == PoolSupplies \cup {ZeroPair}

\* The pool holds every transaction of a universe in which no two spend the
\* same coin, admitted before the first block told the pool a supply.
InitFees ==
    /\ AmountIdle
    /\ ConversionIdle
    /\ AssemblerIdle
    /\ txs \in {T \in PoolUniverses : \A i, j \in TxIds : T[i].coin = T[j].coin => i = j}
    /\ pool \in {Admitted([EmptyPool(ZeroPair) EXCEPT !.mapDeltas = d], txs) :
                    d \in InitialDeltas}
    /\ confirmed = {}
    /\ spentCoins = {}
    /\ now = 0
    /\ trim = IdleTrim
    /\ admission = NoAdmission

UpdateNormalizedFeesCall ==
    /\ PoolReady
    /\ \E supply \in UpdateSupplies :
          pool' = Finish(UpdateNormalizedFees(Enter(pool), supply))
    /\ UNCHANGED <<amountVars, convVars, asmVars, txs, confirmed, spentCoins, now, trim>>
    /\ admission' = NoAdmission

NextFees ==
    \/ UpdateNormalizedFeesCall
    \/ PrioritiseTransactionCall

SpecFees == InitFees /\ [][NextFees]_vars

(***************************************************************************)
(* C22: UpdateNormalizedFees.                                              *)
(***************************************************************************)
\* The fields of an entry that no normalization touches: its per-currency
\* fees, sizes, counts and links.
Unnormalized(e) ==
    [e EXCEPT !.nNormalizedFee = 0, !.m_modified_fee = 0,
              !.nModFeesWithDescendants = 0, !.nModFeesWithAncestors = 0]

\* The cash fee of e plus its bond fee converted at supply.
NormalizedAt(e, supply) ==
    e.nFees[CASH] + GetConvertedAmount(supply, e.nFees[BOND], BOND, FALSE)

\* Q caches supply and holds the entries of P with nothing but normalized
\* fees changed.
SupplyReplaced(P, Q, supply) ==
    /\ Q.m_total_supply = supply
    /\ DOMAIN Q.mapTx = DOMAIN P.mapTx
    /\ \A it \in DOMAIN P.mapTx : Unnormalized(Q.mapTx[it]) = Unnormalized(P.mapTx[it])
    /\ [Q EXCEPT !.mapTx = <<>>, !.m_total_supply = ZeroPair]
         = [P EXCEPT !.mapTx = <<>>, !.m_total_supply = ZeroPair]

\* C22 (as stated): after UpdateNormalizedFees(S), for every supply S, the
\* pool's cached supply is S and every entry's normalized fee is its cash fee
\* plus its bond fee converted at S, with its per-currency fees, sizes, counts
\* and links unchanged.
C22_EveryEntryNormalizedAtS ==
    PoolAtRest =>
        \A supply \in UpdateSupplies :
            LET Q == UpdateNormalizedFees(pool, supply)
            IN  /\ SupplyReplaced(pool, Q, supply)
                /\ \A it \in DOMAIN Q.mapTx :
                       Q.mapTx[it].nNormalizedFee = NormalizedAt(Q.mapTx[it], supply)

\* C22 (amended): after UpdateNormalizedFees(S) the pool's cached supply is S
\* and every entry's per-currency fees, sizes, counts and links are unchanged;
\* if S is not {0, 0} every entry's normalized fee is its cash fee plus its
\* bond fee converted at S, and if S is {0, 0} every entry is left as it was.
C22_NormalizedAtSUnlessZero ==
    PoolAtRest =>
        \A supply \in UpdateSupplies :
            LET Q == UpdateNormalizedFees(pool, supply)
            IN  /\ SupplyReplaced(pool, Q, supply)
                /\ supply # ZeroPair =>
                       \A it \in DOMAIN Q.mapTx :
                           Q.mapTx[it].nNormalizedFee = NormalizedAt(Q.mapTx[it], supply)
                /\ supply = ZeroPair => Q.mapTx = pool.mapTx

\* UpdateNormalizedFees has replaced the supply of a pool whose entries were
\* admitted at {0, 0}: they are normalized at the supply now cached, and the
\* normalized fee of one of them is no longer its cash fee.
C22_Witness ==
    /\ PoolAtRest
    /\ pool.m_total_supply \in PoolSupplies
    /\ Cardinality(DOMAIN pool.mapTx) = MaxTx
    /\ \A it \in DOMAIN pool.mapTx :
           pool.mapTx[it].nNormalizedFee = NormalizedAt(pool.mapTx[it], pool.m_total_supply)
    /\ \E it \in DOMAIN pool.mapTx : pool.mapTx[it].nNormalizedFee # pool.mapTx[it].nFees[CASH]

(***************************************************************************)
(* C23: CalculateDescendants with an exclusion predicate (checked under    *)
(* SpecPool).                                                              *)
(***************************************************************************)
\* The entries a call that returned result has taken from its stage: entryit
\* and the children of the entries it added.
VisitedBy(entryit, result) ==
    {entryit} \cup UNION {pool.mapTx[it].m_children : it \in result}

\* C23: CalculateDescendants called with an exclusion predicate returns a set
\* that contains no visited node the predicate is true for and no descendant
\* of such a node, in every pool graph, a descendant with several parents
\* included.
C23_ExcludedSubtreesPruned ==
    PoolAtRest =>
        \A entryit \in DOMAIN pool.mapTx :
            \A excluded \in SUBSET DOMAIN pool.mapTx :
                LET result == CalculateDescendants(pool, entryit, {}, excluded)
                IN  \A it \in VisitedBy(entryit, result) \cap excluded :
                        /\ it \notin result
                        /\ InPoolDescendants(it) \cap result = {}

(***************************************************************************)
(* C24: the remainder of an appended conversion (checked under             *)
(* SpecAssembler).                                                         *)
(***************************************************************************)
\* The transaction AddToBlock appends in this step, and its conversion
\* against the working supply.
Appended == Head(apt.sortedEntries)
AppendedConversion == ConversionAt(GetTotalSupply(ba), Appended)

\* AddToBlock appends a conversion that leaves a remainder.
AppendsWithRemainder ==
    /\ apt.pc \in {"append", "drainAppend"}
    /\ apt.sortedEntries # <<>>
    /\ ba'.vtx = Append(ba.vtx, Appended)
    /\ txs[Appended].conversionInfo.present
    /\ AppendedConversion.ok
    /\ AppendedConversion.extra > 0

\* nFees with the fees of the appended transaction.
FeesWithAppended == [t \in AmountTypes |-> ba.nFees[t] + txs[Appended].nFees[t]]

RECURSIVE RemaindersOf(_, _, _)
\* The remainders, by currency, of the conversions of vtx that are valid where
\* they stand, from supply on; total is what was found so far.
RemaindersOf(supply, vtx, total) ==
    IF vtx = <<>> THEN [supply |-> supply, total |-> total]
    ELSE LET info == txs[Head(vtx)].conversionInfo
             res == ConversionAt(supply, Head(vtx))
         IN  IF info.present /\ res.ok
             THEN RemaindersOf(res.supply, Tail(vtx),
                               [total EXCEPT ![info.remainderType] = @ + res.extra])
             ELSE RemaindersOf(supply, Tail(vtx), total)

\* What the outputs of the coinbase pay in currency t.
CoinbasePays(t) ==
    SumOver({k \in DOMAIN ba.coinbase : ba.coinbase[k].amountType = t},
            LAMBDA k : ba.coinbase[k].nValue)

\* C24: for every conversion appended with remainder r > 0, either its
\* destination is valid, one coinbase output of (remainder type, r) is added and
\* the collected fees get nothing but the transaction's fees, or r is added to
\* the collected fees of the remainder type and no output is added; and in
\* each currency the coinbase pays the included transactions' fees plus the
\* subsidy plus all remainders.
C24_RemainderPaidOnce ==
    /\ [][AppendsWithRemainder =>
             LET info == txs[Appended].conversionInfo
                 r == AppendedConversion.extra
             IN  IF info.destination
                 THEN /\ ba'.conversionOutputs =
                             Append(ba.conversionOutputs,
                                    [amountType |-> info.remainderType, nValue |-> r])
                      /\ ba'.nFees = FeesWithAppended
                 ELSE /\ ba'.conversionOutputs = ba.conversionOutputs
                      /\ ba'.nFees = [FeesWithAppended EXCEPT ![info.remainderType] = @ + r]
         ]_vars
    /\ [](apt.pc \in {"returned", "threw"} =>
             LET paid == RemaindersOf(chain.totalSupply, ba.vtx, ZeroPair)
                 reward == GetBlockSubsidy(ba.nHeight, paid.supply)
             IN  \A t \in AmountTypes :
                     CoinbasePays(t) =
                         SumOver(Range(ba.vtx), LAMBDA it : txs[it].nFees[t])
                           + reward[t] + paid.total[t])

\* CreateNewBlock has returned a block with a conversion whose remainder went
\* to its destination in an output of the coinbase.
C24_Witness ==
    /\ apt.pc = "returned"
    /\ Len(ba.coinbase) > 2
    /\ \E it \in Range(ba.vtx) : txs[it].conversionInfo.destination
    /\ RemaindersOf(chain.totalSupply, ba.vtx, ZeroPair).total # ZeroPair

(***************************************************************************)
(* C25: what removeForBlock leaves in the pool (checked under SpecPool).   *)
(***************************************************************************)
\* The entries of live that descend from it, it included.
DescendantsIn(live, it) ==
    Reach([i \in TxIds |-> {c \in live : i \in txs[c].parents}], {it} \cap live, {})

\* The prevouts the transactions of the block vtx spend.
SpentByBlock(vtx) == UNION {Range(Vin(txs[i])) : i \in Range(vtx)}

\* R is a pool removeForBlock(vtx, supply, check_expired,
\* check_invalid_conversion) may return, Q being the pool at the point where
\* the predicates are evaluated.
BlockRemoved(Q, R, vtx, supply, check_expired, check_invalid_conversion) ==
    /\ Range(vtx) \cap DOMAIN R.mapTx = {}
    /\ \A it \in DOMAIN R.mapTx : Range(R.mapTx[it].vin) \cap SpentByBlock(vtx) = {}
    /\ \A it \in check_expired \cup check_invalid_conversion :
           DescendantsIn(DOMAIN Q.mapTx, it) \cap DOMAIN R.mapTx = {}
    /\ R.m_total_supply = supply

\* C25: after removeForBlock returns, the pool holds no transaction of the
\* block, no entry that spends an outpoint a block transaction spends, no
\* entry the expired or the invalid-conversion predicate held for (evaluated
\* once the block's transactions were removed) and no descendant of one, and
\* the cached supply is the supply passed in.
C25_NothingOfTheBlockLeft ==
    PoolAtRest =>
        \A vtx \in ConnectableBlocks, supply \in PoolSupplies :
            LET Q == removeForBlockTxs(Enter(pool), [k \in DOMAIN vtx |-> txs[vtx[k]]])
            IN  \A check_expired \in SUBSET DOMAIN Q.mapTx :
                    \A check_invalid_conversion \in SUBSET ((DOMAIN Q.mapTx) \ check_expired) :
                        LET R == removeForBlockRest(Q, supply, check_expired,
                                                    check_invalid_conversion)
                        IN  ~R.aborted =>
                                BlockRemoved(Q, Finish(R), vtx, supply, check_expired,
                                             check_invalid_conversion)

\* removeForBlock has returned: the pool caches the supply of a block, a
\* transaction that spends a coin the block spent is neither confirmed nor in
\* the pool, and an entry whose parent the block confirmed is still there.
C25_Witness ==
    /\ PoolAtRest
    /\ pool.m_total_supply \in PoolSupplies
    /\ \E i \in TxIds : /\ i \notin confirmed \cup DOMAIN pool.mapTx
                        /\ txs[i].coin \in spentCoins
    /\ \E it \in DOMAIN pool.mapTx : txs[it].parents \cap confirmed # {}

(***************************************************************************)
(* C26: the supply an appended conversion meets (checked under             *)
(* SpecAssembler).                                                         *)
(***************************************************************************)
\* C26: every conversion transaction that AddToBlock appends passes
\* IsValidConversion against the working supply at the moment it is appended,
\* whatever the number of conversions of its package.
C26_AppendedConversionValid ==
    [][(/\ apt.pc \in {"append", "drainAppend"}
        /\ apt.sortedEntries # <<>>
        /\ ba'.vtx = Append(ba.vtx, Appended)
        /\ txs[Appended].conversionInfo.present)
       => AppendedConversion.ok]_vars

(***************************************************************************)
(* CreateNewBlock over a pool of conversions (SpecDrain): every            *)
(* transaction of the pool is a conversion, each of another request.       *)
(***************************************************************************)
DrainConversionMaps ==
    {c \in [TxIds -> {CTxConversionInfo(r, 0) : r \in ConversionRequests}] :
        \A i, j \in TxIds : c[i] = c[j] => i = j}

\* The pools are the plain ones and those with a deadline on one conversion.
DrainVariations == {v \in Variations : v.kind \in {"plain", "deadline"}}

InitDrain ==
    /\ AmountIdle
    /\ ConversionIdle
    /\ chain \in Chains
    /\ \E v \in DrainVariations :
          /\ txs \in {[i \in TxIds |-> AssemblerTx(i, par, conv, rate, v)] :
                          par \in ParentMaps, conv \in DrainConversionMaps,
                          rate \in [TxIds -> FeeRates]}
          /\ ba = BlockAssembler(AssemblerOptions(v))
    /\ pool = Admitted(EmptyPool(chain.totalSupply), txs)
    /\ confirmed = {}
    /\ spentCoins = {}
    /\ now = 0
    /\ trim = IdleTrim
    /\ admission = NoAdmission
    /\ apt = IdleLocals

SpecDrain == InitDrain /\ [][NextAssembler]_vars

(***************************************************************************)
(* C27: the entries a failed re-test skips (checked under SpecDrain).      *)
(***************************************************************************)
\* The queue the drain has taken conversionit from, and its cursor.
DrainQueue ==
    IF ConversionIt(apt).conversionType = CASH THEN apt.invalidConversionTxCash
    ELSE apt.invalidConversionTxBond
DrainCursor == IF ConversionIt(apt).conversionType = CASH THEN apt.cashit ELSE apt.bondit

\* The package of the pool transaction it passes TestPackageTransactions
\* against the working supply.
PassesRetest(it) ==
    TestPackageTransactions(pool, txs, ba, PackageOf(pool, ba, it)).ok

\* This turn of the drain re-tests the head of a queue, the re-test fails and
\* the rest of the queue is skipped.
RetestFails ==
    /\ apt.pc = "drain"
    /\ DrainGoesOn(apt)
    /\ ConversionIt(apt).entry.iter \notin ba.inBlock \cup apt.failedValidConversion
    /\ ~PassesRetest(ConversionIt(apt).entry.iter)
    /\ apt'.pc = "drain"

\* The entries of the queue behind its head that are not in the block.
SkippedByRetest ==
    {DrainQueue[k].iter : k \in (DrainCursor + 1)..Len(DrainQueue)} \ ba.inBlock

\* C27: in a retry drain, when the entry at the head of one direction's
\* queue (the lowest adjusted rate) fails its re-test and the rest of the
\* queue is skipped, no skipped entry would have passed the check against the
\* working supply at that moment.
C27_SkippedWouldHaveFailed ==
    [][RetestFails => \A it \in SkippedByRetest : ~PassesRetest(it)]_vars

(***************************************************************************)
(* C28: the fee floor of the packages appended.                            *)
(***************************************************************************)
\* A package goes to AddToBlock: the step that leaves the tests of the
\* primary loop or of a drain with the package in sortedEntries.
PackageAppended ==
    /\ apt.pc \notin {"append", "drainAppend"}
    /\ apt'.pc \in {"append", "drainAppend"}
\* The modified fees and the virtual size of the members of the package,
\* none of which is in the block yet.
PackageModifiedFees(package) == SumOver(package, LAMBDA i : pool.mapTx[i].m_modified_fee)
PackageVSize(package) == SumOver(package, LAMBDA i : GetTxSize(pool.mapTx[i]))
MeetsFloor(package) ==
    PackageModifiedFees(package) >= GetFee(ba.blockMinFeeRate, PackageVSize(package))

\* C28: every package appended to the block, in the primary loop or in a
\* drain, has at that moment modified fees of its members that are not in the
\* block yet of at least blockMinFeeRate.GetFee of their total virtual size,
\* and once addPackageTxs has returned for a candidate below the floor
\* nothing more is appended.
C28_AppendedPackagesMeetFloor ==
    /\ [][PackageAppended => /\ apt'.ancestors \cap ba.inBlock = {}
                             /\ MeetsFloor(apt'.ancestors)]_vars
    /\ [][apt.pc = "finish" => ba'.vtx = ba.vtx]_vars

(***************************************************************************)
(* CreateNewBlock over a pool of four transactions (SpecFloor): two plain  *)
(* transactions and two conversions, under the plain floor and the higher  *)
(* one.                                                                    *)
(***************************************************************************)
FloorTxIds == 1..(MaxTx + 1)
\* Transactions 3 and 4 have no parent in the pool, transaction 2 may spend
\* them and transaction 1 may spend all the others.
FloorParentMaps ==
    {par \in [FloorTxIds -> SUBSET FloorTxIds] :
        /\ par[1] \subseteq {2, 3, 4}
        /\ par[2] \subseteq {3, 4}
        /\ par[3] = {}
        /\ par[4] = {}}
\* Transactions 2 and 3 are conversions.
FloorConversionMaps ==
    {c \in [FloorTxIds -> {NoConversion} \cup
                          {CTxConversionInfo(r, 0) : r \in ConversionRequests}] :
        \A i \in FloorTxIds : c[i].present <=> i \in {2, 3}}
FloorVariations == {v \in Variations : v.kind \in {"plain", "minfee"}}

InitFloor ==
    /\ AmountIdle
    /\ ConversionIdle
    /\ chain \in Chains
    /\ \E v \in FloorVariations :
          /\ txs \in {[i \in FloorTxIds |-> AssemblerTx(i, par, conv, rate, v)] :
                          par \in FloorParentMaps, conv \in FloorConversionMaps,
                          rate \in [FloorTxIds -> FeeRates]}
          /\ ba = BlockAssembler(AssemblerOptions(v))
    /\ pool = Admitted(EmptyPool(chain.totalSupply), txs)
    /\ confirmed = {}
    /\ spentCoins = {}
    /\ now = 0
    /\ trim = IdleTrim
    /\ admission = NoAdmission
    /\ apt = IdleLocals

SpecFloor == InitFloor /\ [][NextAssembler]_vars

(***************************************************************************)
(* C29: what the overlay entries track.                                    *)
(***************************************************************************)
\* The entries of mapModifiedTx and of the two queues of deferred conversions.
TrackedEntries ==
    {apt.mapModifiedTx[i] : i \in DOMAIN apt.mapModifiedTx}
    \cup Range(apt.invalidConversionTxCash) \cup Range(apt.invalidConversionTxBond)
\* The transaction of the entry and its in-pool ancestors that are not in the
\* block.
Remaining(it) == {it} \cup (InPoolAncestors(it) \ ba.inBlock)
TracksRemaining(e) ==
    /\ e.nSizeWithAncestors = SumOver(Remaining(e.iter), LAMBDA i : GetTxSize(pool.mapTx[i]))
    /\ e.nSigOpCostWithAncestors = SumOver(Remaining(e.iter), LAMBDA i : pool.mapTx[i].sigOpCost)
\* addPackageTxs stands between two turns of a loop: every package appended
\* has gone through UpdatePackagesForAdded.
BetweenTurns == apt.pc \in {"primary", "drain", "drainBreak", "finish"}

\* C29: every entry held in mapModifiedTx or in a queue of deferred
\* conversions, for a transaction that is not in the block, tracks as
\* nSizeWithAncestors and nSigOpCostWithAncestors its own size and sigop cost
\* plus those of exactly its ancestors that are not in the block yet.
C29_OverlayTracksRemaining ==
    BetweenTurns =>
        \A e \in TrackedEntries : e.iter \notin ba.inBlock => TracksRemaining(e)

(***************************************************************************)
(* C30: the two removals that end removeForBlock (checked under SpecPool). *)
(***************************************************************************)
\* setAllExpiredRemoves and setAllInvalidConversionRemoves as removeForBlock
\* computes them in the pool Q, before either is removed.
ExpiredRemoves(Q, check_expired) ==
    DescendantsOfAll(Q, {it \in DOMAIN Q.mapTx : it \in check_expired})
InvalidConversionRemoves(Q, check_expired, check_invalid_conversion) ==
    DescendantsOfAll(Q, {it \in DOMAIN Q.mapTx :
                            it \notin check_expired /\ it \in check_invalid_conversion})

\* C30: removeForBlock never removes the same entry twice: no entry is both in
\* the descendant closure of the expired entries and in that of the
\* invalid-conversion entries, and the second RemoveStaged goes through no
\* entry the first has erased.
C30_NoEntryRemovedTwice ==
    PoolAtRest =>
        \A vtx \in ConnectableBlocks, supply \in PoolSupplies :
            LET Q == removeForBlockTxs(Enter(pool), [k \in DOMAIN vtx |-> txs[vtx[k]]])
            IN  \A check_expired \in SUBSET DOMAIN Q.mapTx :
                    \A check_invalid_conversion \in SUBSET ((DOMAIN Q.mapTx) \ check_expired) :
                        /\ ExpiredRemoves(Q, check_expired)
                               \cap InvalidConversionRemoves(Q, check_expired,
                                                             check_invalid_conversion) = {}
                        /\ removeForBlockRest(Q, supply, check_expired,
                                              check_invalid_conversion).danglingUse
                               => Q.danglingUse

(***************************************************************************)
(* C31: the cursor of the first loop of TrimToSize (checked under          *)
(* SpecPool).                                                              *)
(***************************************************************************)
\* The first loop of TrimToSize is about to run its body for the entry the
\* cursor mi stands on.
InvalidPassTurn ==
    /\ trim.phase = "invalid"
    /\ trim.mi # 0
    /\ DynamicMemoryUsage(pool) > trim.sizelimit
\* The pool at the ++mi that ends the turn.
PoolAtIncrement ==
    IF trim.mi \in trim.check_invalid_conversion THEN removeEntry(pool, trim.mi) ELSE pool

\* C31: in the invalid-conversion pass of TrimToSize the cursor over the
\* descendant_score index is dereferenced only at an entry that is in the
\* pool, and is advanced only from an entry that the eviction of that turn
\* has left in the pool.
C31_CursorOnLiveEntry ==
    InvalidPassTurn => /\ trim.mi \in DOMAIN pool.mapTx
                       /\ trim.mi \in DOMAIN PoolAtIncrement.mapTx

(***************************************************************************)
(* The serialized size of the finished block (primitives/transaction.h,    *)
(* primitives/block.h, consensus/validation.h).  Every script of the       *)
(* coinbase is a pay-to-witness-pubkey-hash script but the one of the      *)
(* witness commitment.                                                     *)
(***************************************************************************)
\* A P2WPKH scriptPubKey and the scriptPubKey of the witness commitment.
P2WPKHScriptSize == 22
CommitmentScriptSize == 38
\* CTxOut: amountType, nValue, the length of the script, the script.
CTxOutSize(scriptSize) == 1 + 8 + 1 + scriptSize
\* The coinbase without its witness: nVersion, one input (a null prevout, the
\* scriptSig nHeight OP_0 with its length, nSequence), the outputs of vout,
\* the witness commitment, nLockTime.
CoinbaseBaseSize(vout) ==
    4 + 1 + (36 + 1 + 2 + 4) + 1 + Len(vout) * CTxOutSize(P2WPKHScriptSize)
      + CTxOutSize(CommitmentScriptSize) + 4
\* Marker, flag and the witness stack of the input: one item of 32 bytes.
CoinbaseWitnessSize == 2 + 1 + 1 + 32
\* GetTransactionWeight of the coinbase.
CoinbaseWeight(vout) ==
    CoinbaseBaseSize(vout) * (WITNESS_SCALE_FACTOR - 1)
        + (CoinbaseBaseSize(vout) + CoinbaseWitnessSize)
\* GetBlockWeight of the finished block B over the pool P: the header and the
\* transaction count, the coinbase, the pool transactions of the block.
GetBlockWeight(P, B) ==
    (80 + 1) * WITNESS_SCALE_FACTOR + CoinbaseWeight(B.coinbase)
        + SumOver(B.inBlock, LAMBDA i : P.mapTx[i].nTxWeight)

(***************************************************************************)
(* CreateNewBlock over a pool of conversions that leave a remainder        *)
(* (SpecCoinbase): the tip has a supply of 300 cash and 10 bond;           *)
(* transaction 1 turns 5 bond into cash and is invalid at the tip, every   *)
(* other transaction turns 1 cash into bond, and each names a destination  *)
(* for its remainder.                                                      *)
(***************************************************************************)
MaxCoinbaseTx == 32
CoinbaseTxIds == 1..MaxCoinbaseTx
CoinbaseChains == {[nHeight |-> 1, totalSupply |-> Pair(300, 10), medianTimePast |-> 0]}
CoinbaseConversions ==
    [i \in CoinbaseTxIds |->
        IF i = 1
        THEN CTxConversionInfo([inputs |-> Pair(0, 5), minOutputs |-> Pair(1, 0),
                                remainderType |-> CASH, destination |-> TRUE], 0)
        ELSE CTxConversionInfo([inputs |-> Pair(1, 0), minOutputs |-> Pair(0, 1),
                                remainderType |-> BOND, destination |-> TRUE], 0)]
\* -blockmaxweight: a limit the transactions of the pool just fit, or the
\* default.
CoinbaseMaxWeights == {17300, MAX_BLOCK_WEIGHT}

InitCoinbase ==
    /\ AmountIdle
    /\ ConversionIdle
    /\ chain \in CoinbaseChains
    /\ \E r \in FeeRates :
          txs = [i \in CoinbaseTxIds |->
                    AssemblerTx(i, [j \in CoinbaseTxIds |-> {}], CoinbaseConversions,
                                [j \in CoinbaseTxIds |-> r],
                                [kind |-> "plain", tx |-> 0, value |-> 0])]
    /\ \E w \in CoinbaseMaxWeights :
          ba = BlockAssembler([nBlockMaxWeight |-> w, blockMinFeeRate |-> 1000])
    /\ pool = Admitted(EmptyPool(chain.totalSupply), txs)
    /\ confirmed = {}
    /\ spentCoins = {}
    /\ now = 0
    /\ trim = IdleTrim
    /\ admission = NoAdmission
    /\ apt = IdleLocals

SpecCoinbase == InitCoinbase /\ [][NextAssembler]_vars

(***************************************************************************)
(* C32: the weight reserved for the coinbase (checked under SpecCoinbase). *)
(***************************************************************************)
\* C32: the 4000 weight units resetBlock reserves cover the finished
\* coinbase with every conversion remainder output appended to it, so that
\* the weight of the finished block is within nBlockMaxWeight whatever the
\* number of conversions included.
C32_ReserveCoversCoinbase ==
    apt.pc = "returned" =>
        /\ CoinbaseWeight(ba.coinbase) <= 4000
        /\ GetBlockWeight(pool, ba) <= ba.nBlockMaxWeight

(***************************************************************************)
(* C33: the normalized fees of the entries and the cached supply.          *)
(***************************************************************************)
\* The cash part of the per-currency total fees plus its bond part converted
\* with GetConvertedAmount at supply.
ConvertedTotal(fees, supply) ==
    fees[CASH] + GetConvertedAmount(supply, fees[BOND], BOND, FALSE)
\* The three normalized modified fees of e are what its per-currency totals
\* give at supply.
NormalizedFeesAt(e, supply) ==
    /\ e.m_modified_fee = ConvertedTotal(e.m_all_modified_fees, supply)
    /\ e.nModFeesWithAncestors = ConvertedTotal(e.nModAllFeesWithAncestors, supply)
    /\ e.nModFeesWithDescendants = ConvertedTotal(e.nModAllFeesWithDescendants, supply)

\* C33 (as stated): after any admission, removal, prioritisation or
\* recomputation every entry's normalized modified fee, fee with ancestors
\* and fee with descendants are the cash part of the per-currency total plus
\* its bond part converted at the supply the pool caches.
C33_NormalizedAtCachedSupply ==
    PoolAtRest =>
        \A it \in DOMAIN pool.mapTx : NormalizedFeesAt(pool.mapTx[it], pool.m_total_supply)

\* C33 (amended): the same, once the pool caches a supply other than {0, 0}.
C33_NormalizedOnceSupplyCached ==
    (PoolAtRest /\ pool.m_total_supply # ZeroPair) =>
        \A it \in DOMAIN pool.mapTx : NormalizedFeesAt(pool.mapTx[it], pool.m_total_supply)

(***************************************************************************)
(* The pool under admissions, removals, prioritisation and recomputation   *)
(* of the normalized fees (SpecLedger).                                    *)
(***************************************************************************)
InitLedger ==
    /\ AmountIdle
    /\ ConversionIdle
    /\ AssemblerIdle
    /\ txs \in {T \in PoolUniverses : \A i, j \in TxIds : T[i].coin = T[j].coin => i = j}
    /\ pool = EmptyPool(ZeroPair)
    /\ confirmed = {}
    /\ spentCoins = {}
    /\ now = 0
    /\ trim = IdleTrim
    /\ admission = NoAdmission

NextLedger ==
    \/ AddUncheckedCall
    \/ RemoveRecursiveCall
    \/ RemoveForBlockCall
    \/ PrioritiseTransactionCall
    \/ UpdateNormalizedFeesCall

SpecLedger == InitLedger /\ [][NextLedger]_vars

\* A pool that caches a supply other than {0, 0} holds a prioritised entry
\* and a descendant of it whose fee with ancestors has a bond part that
\* converts to more than nothing.
C33_Witness ==
    /\ PoolAtRest
    /\ pool.m_total_supply # ZeroPair
    /\ \E it \in DOMAIN pool.mapTx :
          /\ pool.mapTx[it].m_all_modified_fees[CASH] # pool.mapTx[it].nFees[CASH]
          /\ pool.mapTx[it].m_modified_fee # pool.mapTx[it].m_all_modified_fees[CASH]
    /\ \E it \in DOMAIN pool.mapTx :
          /\ pool.mapTx[it].m_parents # {}
          /\ pool.mapTx[it].nModAllFeesWithAncestors[CASH]
                 # SumOver(InPoolAncestors(it) \cup {it}, LAMBDA a : pool.mapTx[a].nFees[CASH])
          /\ pool.mapTx[it].nModFeesWithAncestors
                 # pool.mapTx[it].nModAllFeesWithAncestors[CASH]

\* C34: after any sequence of admissions and removals in which every block
\* takes a transaction only after all of its in-pool ancestors, every entry
\* of the pool has size, per-currency modified fees and count with
\* descendants equal to its own plus those of all its in-pool descendants.
C34_DescendantAggregatesExact ==
    ~pool.aborted =>
        \A it \in DOMAIN pool.mapTx :
            LET e == pool.mapTx[it]
                with == InPoolDescendants(it) \cup {it}
            IN  /\ e.nSizeWithDescendants = SumOver(with, LAMBDA d : GetTxSize(pool.mapTx[d]))
                /\ \A t \in AmountTypes :
                      e.nModAllFeesWithDescendants[t]
                          = SumOver(with, LAMBDA d : pool.mapTx[d].m_all_modified_fees[t])
                /\ e.nCountWithDescendants = Cardinality(with)


\* After at least one removal, an entry with a descendant in the pool and a
\* child that is neither in the pool nor confirmed.
C34_Witness ==
    /\ PoolAtRest
    /\ pool.nTransactionsUpdated >= 4
    /\ \E it \in DOMAIN pool.mapTx :
          /\ InPoolDescendants(it) # {}
          /\ \E d \in TxIds \ (confirmed \cup DOMAIN pool.mapTx) : it \in txs[d].parents

(***************************************************************************)
(* A reorganisation: the transactions of disconnected blocks come back     *)
(* into the pool (SpecReorg).                                              *)
(***************************************************************************)
\* The while loop of UpdateForDescendants: the descendants of the entry whose
\* children were staged, with what the cache holds for a child taken over
\* instead of walked again.
RECURSIVE UpdateForDescendantsLoop(_, _, _, _)
UpdateForDescendantsLoop(P, cachedDescendants, stageEntries, descendants) ==
    IF stageEntries = {} THEN descendants
    ELSE LET descendant == MinOf(stageEntries)
             walked ==
                 FoldSet(LAMBDA acc, childEntry :
                             IF childEntry \in DOMAIN cachedDescendants
                             THEN [acc EXCEPT !.descendants =
                                                  @ \cup cachedDescendants[childEntry]]
                             ELSE IF childEntry \notin acc.descendants
                             THEN [acc EXCEPT !.stageEntries = @ \cup {childEntry}]
                             ELSE acc,
                         [stageEntries |-> stageEntries \ {descendant},
                          descendants |-> descendants \cup {descendant}],
                         EntryAt(P, descendant).m_children)
         IN  UpdateForDescendantsLoop(P, cachedDescendants, walked.stageEntries,
                                      walked.descendants)

\* UpdateForDescendants that leaves the ancestor state of the descendants alone.
UpdateForDescendants_OwnStateOnly(S, updateIt, setExclude, limits) ==
    LET descendants == UpdateForDescendantsLoop(S.pool, S.cachedDescendants,
                           EntryAt(S.pool, updateIt).m_children, {}) \ setExclude
    IN  [pool |-> ModifyDescendantState(S.pool, updateIt,
                      FoldSet(LAMBDA s, d : s + GetTxSize(EntryAt(S.pool, d)), 0, descendants),
                      [t \in AmountTypes |->
                          FoldSet(LAMBDA s, d : s + EntryAt(S.pool, d).m_all_modified_fees[t],
                                  0, descendants)],
                      Cardinality(descendants)),
         cachedDescendants |-> S.cachedDescendants,
         descendants_to_remove |-> S.descendants_to_remove]

\* UpdateForDescendants(updateIt, cachedDescendants, setExclude,
\* descendants_to_remove): S holds the pool and the two sets the caller hands
\* in by reference, limits is m_limits.
UpdateForDescendants(S, updateIt, setExclude, limits) ==
    LET P == S.pool
        update == EntryAt(P, updateIt)
        descendants == UpdateForDescendantsLoop(P, S.cachedDescendants,
                                                update.m_children, {}) \ setExclude
        modifySize == FoldSet(LAMBDA s, d : s + GetTxSize(EntryAt(P, d)), 0, descendants)
        modifyFees == [t \in AmountTypes |->
            FoldSet(LAMBDA s, d : s + EntryAt(P, d).m_all_modified_fees[t], 0, descendants)]
        marked ==
            FoldSet(LAMBDA acc, d :
                        LET Q == ModifyAncestorState(acc.pool, d, GetTxSize(update),
                                     update.m_all_modified_fees, 1, update.sigOpCost)
                            e == EntryAt(Q, d)
                        IN  [pool |-> Q,
                             remove |-> IF \/ Exceeds(e.nCountWithAncestors,
                                                      limits.ancestorCount)
                                           \/ Exceeds(e.nSizeWithAncestors,
                                                      limits.ancestorSize)
                                        THEN acc.remove \cup {d} ELSE acc.remove],
                    [pool |-> P, remove |-> S.descendants_to_remove], descendants)
    IN  [pool |-> ModifyDescendantState(marked.pool, updateIt, modifySize, modifyFees,
                                        Cardinality(descendants)),
         cachedDescendants |-> IF descendants = {} THEN S.cachedDescendants
                               ELSE With(S.cachedDescendants, updateIt, descendants),
         descendants_to_remove |-> marked.remove]

\* The entries of mapNextTx that spend an output of hash.
SpendersOf(P, hash) == {P.mapNextTx[o] : o \in {x \in DOMAIN P.mapNextTx : x[1] = hash}}

\* UpdateTransactionsFromBlock(vHashesToUpdate), limits being m_limits.
UpdateTransactionsFromBlock(P, vHashesToUpdate, limits) ==
    LET setAlreadyIncluded == Range(vHashesToUpdate)
        reversed == [k \in DOMAIN vHashesToUpdate |->
                        vHashesToUpdate[Len(vHashesToUpdate) + 1 - k]]
        updated ==
            FoldSeq(LAMBDA S, hash :
                        IF hash \notin DOMAIN S.pool.mapTx THEN S
                        ELSE LET children == SpendersOf(S.pool, hash)
                                 linked ==
                                     FoldSet(LAMBDA Q, childIter :
                                                 UpdateParent(
                                                     UpdateChild(Q, hash, childIter, TRUE),
                                                     childIter, hash, TRUE),
                                             [S.pool EXCEPT !.aborted =
                                                 @ \/ ~(children \subseteq DOMAIN S.pool.mapTx)],
                                             (children \cap DOMAIN S.pool.mapTx)
                                                 \ setAlreadyIncluded)
                             IN  UpdateForDescendants([S EXCEPT !.pool = linked], hash,
                                                      setAlreadyIncluded, limits),
                    [pool |-> P, cachedDescendants |-> <<>>, descendants_to_remove |-> {}],
                    reversed)
    IN  FoldSet(LAMBDA Q, txid : IF txid \in DOMAIN Q.mapTx THEN removeRecursive(Q, txid)
                                                            ELSE Q,
                updated.pool, updated.descendants_to_remove)

\* The transactions of the reorganisation specification: four of them, each
\* spending outputs of transactions with smaller txids only.
ReorgTxIds == 1..(MaxTx + 1)
ReorgParentMaps ==
    {par \in [ReorgTxIds -> SUBSET ReorgTxIds] : \A i \in ReorgTxIds : par[i] \subseteq 1..(i - 1)}

ReorgTx(i, par) ==
    [id |-> i, parents |-> par[i], coin |-> i,
     nFees |-> Pair(2 ^ (MaxTx + 1 - i), 2 ^ (i - 1)),
     nTxWeight |-> 400 * 2 ^ (i - 1), sigOpCost |-> 2 ^ (i - 1),
     conversionInfo |-> NoConversion]

\* The ancestor limits of the pool (m_limits): the defaults, which nothing
\* here reaches, or a count or a size that a chain can exceed.
ReorgLimits ==
    {NoLimits, [NoLimits EXCEPT !.ancestorCount = Limit(MaxLimitCount)],
     [NoLimits EXCEPT !.ancestorSize = Limit(500)]}

\* Blocks connected before the pool saw their transactions: the confirmed
\* transactions are closed under parents.
InitReorg ==
    /\ AmountIdle
    /\ ConversionIdle
    /\ AssemblerIdle
    /\ txs \in {[i \in ReorgTxIds |-> ReorgTx(i, par)] : par \in ReorgParentMaps}
    /\ pool = EmptyPool(Pair(2, 3))
    /\ confirmed \in {C \in SUBSET ReorgTxIds : \A i \in C : txs[i].parents \subseteq C}
    /\ spentCoins = {txs[i].coin : i \in confirmed}
    /\ now = 0
    /\ trim = IdleTrim
    /\ admission = NoAdmission

\* The transactions of the blocks a reorganisation disconnects, in block
\* order: confirmed, each after its parents, and spent by no transaction that
\* stays confirmed.
IsDisconnectable(vtx) ==
    /\ Range(vtx) \subseteq confirmed
    /\ \A j, k \in DOMAIN vtx : vtx[j] = vtx[k] => j = k
    /\ \A k \in DOMAIN vtx :
          txs[vtx[k]].parents \cap Range(vtx) \subseteq {vtx[j] : j \in 1..(k - 1)}
    /\ \A c \in confirmed \ Range(vtx) : txs[c].parents \cap Range(vtx) = {}

\* The disconnected transactions are re-added with addUnchecked in block
\* order, and UpdateTransactionsFromBlock is called with their txids.
UpdateMempoolForReorgCall ==
    /\ PoolReady
    /\ \E vtx \in UNION {[1..n -> ReorgTxIds] : n \in 1..MaxTx}, limits \in ReorgLimits :
          /\ IsDisconnectable(vtx)
          /\ pool.nTransactionsUpdated + Len(vtx) <= MaxUpdates
          /\ LET readded ==
                     FoldSeq(LAMBDA Q, i :
                                 addUncheckedEntry(Q, txs[i],
                                     CTxMemPoolEntry(txs[i],
                                         AdmissionNormalizedFee(txs[i], Q.m_total_supply),
                                         now)),
                             Enter(pool), vtx)
             IN  pool' = Finish(UpdateTransactionsFromBlock(readded, vtx, limits))
          /\ confirmed' = confirmed \ Range(vtx)
          /\ spentCoins' = spentCoins \ {txs[i].coin : i \in Range(vtx)}
    /\ UNCHANGED <<amountVars, convVars, asmVars, txs, now, trim>>
    /\ admission' = NoAdmission

\* A transaction the pool has not seen arrives.
ReorgAddUncheckedCall ==
    /\ PoolReady
    /\ \E i \in ReorgTxIds :
          /\ CanAdmit(txs[i])
          /\ pool' = Finish(addUncheckedEntry(Enter(pool), txs[i],
                         CTxMemPoolEntry(txs[i],
                             AdmissionNormalizedFee(txs[i], pool.m_total_supply), now)))
    /\ UNCHANGED <<amountVars, convVars, asmVars, txs, confirmed, spentCoins, now, trim>>
    /\ admission' = NoAdmission

NextReorg ==
    \/ ReorgAddUncheckedCall
    \/ UpdateMempoolForReorgCall
    \/ RemoveForBlockCall
    \/ AdvanceTime

SpecReorg == InitReorg /\ [][NextReorg]_vars

\* Every entry's links are the spend relation among the pool's transactions.
LinksMatchSpends ==
    \A it \in DOMAIN pool.mapTx :
        /\ pool.mapTx[it].m_parents = txs[it].parents \cap DOMAIN pool.mapTx
        /\ pool.mapTx[it].m_children = {c \in DOMAIN pool.mapTx : it \in txs[c].parents}

\* C35: when the transactions of disconnected blocks have been re-added with
\* addUnchecked in block order, with children of theirs in the pool, and
\* UpdateTransactionsFromBlock has run on their txids, every entry's parents
\* and children are the spend relation among the pool's transactions and its
\* ancestor and descendant aggregates are exact.
C35_ReorgRestoresLinksAndAggregates ==
    [][(confirmed' # confirmed /\ confirmed' \subseteq confirmed /\ ~pool'.aborted)
          => /\ LinksMatchSpends'
             /\ C5_AncestorAggregatesExact'
             /\ C34_DescendantAggregatesExact']_vars

\* A pool entry older than a parent of its that is in the pool: the parent
\* came back from a disconnected block.
C35_Witness ==
    /\ PoolAtRest
    /\ \E it \in DOMAIN pool.mapTx :
          \E c \in pool.mapTx[it].m_children :
              /\ c \in DOMAIN pool.mapTx
              /\ pool.mapTx[c].nTime < pool.mapTx[it].nTime
              /\ it \in pool.mapTx[c].m_parents

(***************************************************************************)
(* 64-bit integers over the wide numbers: a sign and a magnitude.          *)
(***************************************************************************)
SignedOf(neg, mag) == [neg |-> neg /\ mag # <<>>, mag |-> mag]
\* The integer n of the model as a signed wide number.
Signed(n) == SignedOf(n < 0, Wide(IF n < 0 THEN -n ELSE n))
SignedZero == SignedOf(FALSE, <<>>)
SignedNeg(a) == SignedOf(~a.neg, a.mag)
SignedAdd(a, b) ==
    IF a.neg = b.neg THEN SignedOf(a.neg, WideAdd(a.mag, b.mag))
    ELSE IF WideLessEq(b.mag, a.mag) THEN SignedOf(a.neg, WideSub(a.mag, b.mag))
    ELSE SignedOf(b.neg, WideSub(b.mag, a.mag))
SignedSub(a, b) == SignedAdd(a, SignedNeg(b))
SignedLess(a, b) ==
    IF a.neg # b.neg THEN a.neg
    ELSE IF a.neg THEN WideLess(b.mag, a.mag) ELSE WideLess(a.mag, b.mag)

\* std::numeric_limits<int64_t>::max() and min().
Int64Max == SignedOf(FALSE, INT64_MAX)
Int64Min == SignedOf(TRUE, WideAdd(INT64_MAX, WideOne))
IsInt64(a) == ~SignedLess(a, Int64Min) /\ ~SignedLess(Int64Max, a)

\* SaturatingAdd(i, j) of util/overflow.h on int64_t.
WideSaturatingAdd(i, j) ==
    IF ~j.neg /\ j # SignedZero /\ SignedLess(SignedSub(Int64Max, j), i) THEN Int64Max
    ELSE IF j.neg /\ SignedLess(i, SignedSub(Int64Min, j)) THEN Int64Min
    ELSE SignedAdd(i, j)
\* The addition would leave the range of int64_t.
Clamps(i, j) == ~IsInt64(SignedAdd(i, j))

(***************************************************************************)
(* PrioritiseTransaction and the entry of one transaction without parents  *)
(* or children in the pool, in 64-bit arithmetic (SpecPriority).  The pool *)
(* caches the supply {0, 0}, at which UpdateNormalizedFee returns at once. *)
(***************************************************************************)
MaxPrioritisations == 3

\* UpdateModifiedFee that adds the difference to the totals with descendants
\* and with ancestors only.
WideUpdateModifiedFee_TotalsOnly(e, fee_diff) ==
    [e EXCEPT !.nModAllFeesWithDescendants[CASH] = WideSaturatingAdd(@, fee_diff),
              !.nModAllFeesWithAncestors[CASH] = WideSaturatingAdd(@, fee_diff)]

\* UpdateModifiedFee(fee_diff, totalSupply) at the supply {0, 0}.
WideUpdateModifiedFee(e, fee_diff) ==
    [e EXCEPT !.nModAllFeesWithDescendants[CASH] = WideSaturatingAdd(@, fee_diff),
              !.nModAllFeesWithAncestors[CASH] = WideSaturatingAdd(@, fee_diff),
              !.m_all_modified_fees[CASH] = WideSaturatingAdd(@, fee_diff)]

\* The constructor of CTxMemPoolEntry, for the fees.
WideCTxMemPoolEntry(fees) ==
    [nFees |-> fees, m_all_modified_fees |-> fees,
     nModAllFeesWithDescendants |-> fees, nModAllFeesWithAncestors |-> fees]

\* The fees of the transaction and the deltas PrioritiseTransaction is called with.
PriorityFees == {Pair(Signed(c), Signed(b)) : c \in {0, 1000}, b \in {0, 7}}
PriorityDeltas == {Signed(1), Signed(-1000), Int64Max, SignedNeg(Int64Max), Int64Min}

InitPriority ==
    /\ ConversionIdle
    /\ PoolIdle
    /\ AssemblerIdle
    /\ amt = [pc |-> "idle"]
    /\ mining = NoMining
    /\ wide \in {[pc |-> "pool", fees |-> f, mapDeltas |-> <<>>, mapTx |-> <<>>,
                  calls |-> 0, deltaClamped |-> FALSE, entryClamped |-> FALSE] :
                    f \in PriorityFees}

\* PrioritiseTransaction(hash, nFeeDelta) for the transaction, hash 1.
WidePrioritiseTransactionCall ==
    /\ wide.pc = "pool"
    /\ wide.calls < MaxPrioritisations
    /\ \E nFeeDelta \in PriorityDeltas :
          LET delta == IF 1 \in DOMAIN wide.mapDeltas THEN wide.mapDeltas[1] ELSE SignedZero
          IN  wide' = [wide EXCEPT
                  !.calls = @ + 1,
                  !.mapDeltas = With(@, 1, WideSaturatingAdd(delta, nFeeDelta)),
                  !.deltaClamped = @ \/ Clamps(delta, nFeeDelta),
                  !.mapTx = IF 1 \in DOMAIN @
                            THEN With(@, 1, WideUpdateModifiedFee(@[1], nFeeDelta))
                            ELSE @,
                  !.entryClamped =
                      @ \/ (1 \in DOMAIN wide.mapTx
                            /\ Clamps(wide.mapTx[1].m_all_modified_fees[CASH], nFeeDelta))]
    /\ UNCHANGED <<convVars, poolVars, asmVars, amt, mining>>

\* addUnchecked(entry, setAncestors) for the transaction: ApplyDelta and,
\* for a delta other than 0, UpdateModifiedFee.
WideAddUncheckedCall ==
    /\ wide.pc = "pool"
    /\ 1 \notin DOMAIN wide.mapTx
    /\ LET entry == WideCTxMemPoolEntry(wide.fees)
           delta == IF 1 \in DOMAIN wide.mapDeltas THEN wide.mapDeltas[1] ELSE SignedZero
       IN  wide' = [wide EXCEPT
               !.mapTx = With(@, 1, IF delta # SignedZero
                                    THEN WideUpdateModifiedFee(entry, delta) ELSE entry),
               !.entryClamped = Clamps(entry.m_all_modified_fees[CASH], delta)]
    /\ UNCHANGED <<convVars, poolVars, asmVars, amt, mining>>

\* removeRecursive(tx, reason): the entry goes, mapDeltas stays.
WideRemoveRecursiveCall ==
    /\ wide.pc = "pool"
    /\ 1 \in DOMAIN wide.mapTx
    /\ wide' = [wide EXCEPT !.mapTx = <<>>, !.entryClamped = FALSE]
    /\ UNCHANGED <<convVars, poolVars, asmVars, amt, mining>>

\* removeForBlock with the transaction in the block: the entry goes, and
\* ClearPrioritisation takes its delta out of mapDeltas.
WideRemoveForBlockCall ==
    /\ wide.pc = "pool"
    /\ wide.mapTx # <<>> \/ wide.mapDeltas # <<>>
    /\ wide' = [wide EXCEPT !.mapTx = <<>>, !.mapDeltas = <<>>,
                            !.entryClamped = FALSE, !.deltaClamped = FALSE]
    /\ UNCHANGED <<convVars, poolVars, asmVars, amt, mining>>

NextPriority ==
    \/ WidePrioritiseTransactionCall
    \/ WideAddUncheckedCall
    \/ WideRemoveRecursiveCall
    \/ WideRemoveForBlockCall

SpecPriority == InitPriority /\ [][NextPriority]_vars

\* The entry's modified cash fee is its base cash fee plus the delta mapDeltas
\* holds for it (0 when it holds none), and its modified bond fee is its base
\* bond fee.
ModifiedIsBasePlusDelta ==
    LET e == wide.mapTx[1]
        delta == IF 1 \in DOMAIN wide.mapDeltas THEN wide.mapDeltas[1] ELSE SignedZero
    IN  /\ SignedSub(e.m_all_modified_fees[CASH], e.nFees[CASH]) = delta
        /\ e.m_all_modified_fees[BOND] = e.nFees[BOND]

\* C36: for every entry in the pool, the modified cash fee minus the base
\* cash fee is the delta recorded for its txid in mapDeltas (0 when none is
\* recorded), whether PrioritiseTransaction was called before or after the
\* admission, and the modified bond fee is the base bond fee.
C36_ModifiedFeeIsBasePlusDelta ==
    (wide.pc = "pool" /\ 1 \in DOMAIN wide.mapTx) => ModifiedIsBasePlusDelta

\* C36 as amended: the same, for an entry and a delta that no SaturatingAdd
\* has clamped since the delta was last cleared.
C36_ModifiedFeeIsBasePlusDeltaUnlessClamped ==
    (wide.pc = "pool" /\ 1 \in DOMAIN wide.mapTx
        /\ ~wide.deltaClamped /\ ~wide.entryClamped) => ModifiedIsBasePlusDelta

\* An entry prioritised before and after its admission, nothing clamped, with
\* a delta that is not 0.
C36_Witness ==
    /\ wide.pc = "pool"
    /\ 1 \in DOMAIN wide.mapTx
    /\ ~wide.deltaClamped /\ ~wide.entryClamped
    /\ wide.calls >= 2
    /\ 1 \in DOMAIN wide.mapDeltas
    /\ wide.mapDeltas[1] \notin {SignedZero, Signed(1), Signed(-1000)}
    /\ wide.mapTx[1].nFees[CASH] # SignedZero

(***************************************************************************)
(* CreateNewBlock as a thread that keeps running (SpecMiner): a step that  *)
(* is enabled is taken in the end.                                         *)
(***************************************************************************)
\* The pools the thread runs over: the plain pools of conversions where the
\* third transaction may spend the first and nothing else is spent.
InitMiner ==
    /\ InitDrain
    /\ txs[1].parents = {}
    /\ txs[2].parents = {}
    /\ txs[3].parents \subseteq {1}
    /\ \A i \in TxIds : txs[i].conversionInfo.nDeadline = 0

SpecMiner == InitMiner /\ [][NextAssembler]_vars /\ WF_vars(NextAssembler)

\* The txids of a queue of deferred entries, in queue order.
QueueIters(queue) == [k \in DOMAIN queue |-> queue[k].iter]

\* A turn of the primary loop advances the cursor of the pool index, erases
\* an entry of the overlay, goes on to append a package or leaves the loop.
PrimaryTurnProgresses ==
    [][apt.pc = "primary" =>
          \/ apt'.mi > apt.mi
          \/ /\ DOMAIN apt'.mapModifiedTx \subseteq DOMAIN apt.mapModifiedTx
             /\ DOMAIN apt'.mapModifiedTx # DOMAIN apt.mapModifiedTx
          \/ apt'.pc \in {"append", "finish", "aborted"}]_vars

\* A turn of a drain that re-tests a deferred entry leaves the entry marked
\* (failed though valid, or on its way into the block) or takes the cursor of
\* its queue to the end; a turn that finds it marked steps over it.
DrainTurnSettlesEntry ==
    [][(apt.pc = "drain" /\ DrainGoesOn(apt)) =>
          LET it == ConversionIt(apt)
          IN  \/ it.entry.iter \in apt'.failedValidConversion
              \/ apt'.pc = "drainAppend" /\ it.entry.iter \in Range(apt'.sortedEntries)
              \/ it.conversionType = CASH /\ apt'.cashit > apt.cashit
              \/ it.conversionType = BOND /\ apt'.bondit > apt.bondit]_vars

\* While a drain runs the cursors do not go back, the marks stay, what is
\* appended is marked, and the queues keep their entries in their places.
DrainKeepsMarks ==
    [][(apt.pc \in {"drain", "drainAppend"} /\ apt'.pc \in {"drain", "drainAppend", "drainBreak"}) =>
          /\ apt'.cashit >= apt.cashit
          /\ apt'.bondit >= apt.bondit
          /\ apt.failedValidConversion \subseteq apt'.failedValidConversion
          /\ ba.inBlock \subseteq ba'.inBlock
          /\ (apt.pc = "drainAppend" /\ apt'.pc = "drain") =>
                 Range(apt.sortedEntries) = {} /\ apt.ancestors \subseteq ba.inBlock
          /\ (apt.pc = "drainAppend" /\ apt'.pc = "drainAppend") =>
                 Range(apt.sortedEntries) \subseteq Range(apt'.sortedEntries) \cup ba'.inBlock
          /\ QueueIters(apt'.invalidConversionTxCash) = QueueIters(apt.invalidConversionTxCash)
          /\ QueueIters(apt'.invalidConversionTxBond) = QueueIters(apt.invalidConversionTxBond)]_vars

\* C37: addPackageTxs terminates for every finite pool: each turn of its
\* primary loop advances the pool cursor, erases an overlay entry or appends
\* a package, and each drain ends, having re-tested each deferred entry at
\* most once.
C37_AddPackageTxsTerminates ==
    /\ (apt.pc = "primary") ~> (apt.pc \in {"finish", "aborted"})
    /\ (apt.pc = "drain") ~> (apt.pc \in {"primary", "finish", "aborted"})
    /\ PrimaryTurnProgresses
    /\ DrainTurnSettlesEntry
    /\ DrainKeepsMarks

\* addPackageTxs has returned after a turn of its primary loop that erased a
\* failed overlay entry and after a drain that appended a deferred entry.
C37_Witness ==
    /\ apt.pc = "finish"
    /\ apt.failedTx # {}
    /\ apt.successfulTx # {}
    /\ apt.nPackagesSelected >= 2

(***************************************************************************)
(* UpdateModifiedFee, UpdateDescendantState and UpdateAncestorState on one *)
(* entry, in 64-bit arithmetic (SpecSaturation).  The sizes and counts are *)
(* uint64_t, the sigop cost is int64_t, the fees are CAmount; the supply   *)
(* passed is {0, 0}, at which UpdateNormalizedFee returns at once.         *)
(***************************************************************************)
MaxStateUpdates == 2

\* 2^64 and 2^32.
Two64 == SignedOf(FALSE, WideAdd(UINT64_MAX, WideOne))
Two32 == SignedOf(FALSE, WideMul(Wide(65536), Wide(65536)))
Uint64Max == SignedOf(FALSE, UINT64_MAX)

\* x += d for a uint64_t x and an int64_t d: the sum modulo 2^64.
AddUint64(x, d) ==
    LET s == SignedAdd(x, d)
    IN  IF s.neg THEN SignedAdd(s, Two64)
        ELSE IF ~SignedLess(s, Two64) THEN SignedSub(s, Two64)
        ELSE s
\* int64_t(x) for a uint64_t x.
AsInt64(x) == IF SignedLess(Int64Max, x) THEN SignedSub(x, Two64) ELSE x
\* int(x) for an int64_t x: the low 32 bits, as a signed number.
AsInt(x) ==
    LET m == SignedOf(FALSE, WideSub(x.mag, WideMul(WideDiv(x.mag, Two32.mag), Two32.mag)))
        low == IF x.neg /\ m # SignedZero THEN SignedSub(Two32, m) ELSE m
    IN  IF SignedLess(low, SignedOf(FALSE, WideDiv(Two32.mag, Wide(2)))) THEN low
        ELSE SignedSub(low, Two32)
\* x += d for int64_t x and d: the sum, or on signed overflow (undefined) the
\* sum modulo 2^64 or a trap.
AddInt64(x, d) ==
    LET s == SignedAdd(x, d)
    IN  IF IsInt64(s) THEN {[value |-> s, trapped |-> FALSE]}
        ELSE {[value |-> IF s.neg THEN SignedAdd(s, Two64) ELSE SignedSub(s, Two64),
               trapped |-> FALSE],
              [value |-> x, trapped |-> TRUE]}

\* The entry of a transaction as its constructor leaves it.
SaturationEntry(size, fees, sigOpCost) ==
    WideCTxMemPoolEntry(fees) @@
    [nSizeWithDescendants |-> size, nCountWithDescendants |-> Signed(1),
     nSizeWithAncestors |-> size, nCountWithAncestors |-> Signed(1),
     nSigOpCostWithAncestors |-> sigOpCost, aborted |-> FALSE]

\* assert(cond) within a call on the entry.
Asserted(e, cond) == IF cond THEN e ELSE [e EXCEPT !.aborted = TRUE]

\* UpdateDescendantState(modifySize, modifyFee, modifyCount, totalSupply).
WideUpdateDescendantState(e, modifySize, modifyFee, modifyCount) ==
    LET sized == [e EXCEPT !.nSizeWithDescendants = AddUint64(@, modifySize)]
        sizeOk == SignedLess(SignedZero, AsInt64(sized.nSizeWithDescendants))
        counted == [sized EXCEPT
                       !.nModAllFeesWithDescendants =
                           Pair(WideSaturatingAdd(@[CASH], modifyFee[CASH]),
                                WideSaturatingAdd(@[BOND], modifyFee[BOND])),
                       !.nCountWithDescendants = AddUint64(@, modifyCount)]
    IN  IF ~sizeOk THEN Asserted(sized, FALSE)
        ELSE Asserted(counted,
                      SignedLess(SignedZero, AsInt64(counted.nCountWithDescendants)))

\* UpdateAncestorState(modifySize, modifyFee, modifyCount, modifySigOps,
\* totalSupply): the entries the call may leave.
WideUpdateAncestorState(e, modifySize, modifyFee, modifyCount, modifySigOps) ==
    LET sized == [e EXCEPT !.nSizeWithAncestors = AddUint64(@, modifySize)]
        sizeOk == SignedLess(SignedZero, AsInt64(sized.nSizeWithAncestors))
        counted == [sized EXCEPT
                       !.nModAllFeesWithAncestors =
                           Pair(WideSaturatingAdd(@[CASH], modifyFee[CASH]),
                                WideSaturatingAdd(@[BOND], modifyFee[BOND])),
                       !.nCountWithAncestors = AddUint64(@, modifyCount)]
        countOk == SignedLess(SignedZero, AsInt64(counted.nCountWithAncestors))
    IN  IF ~sizeOk THEN {Asserted(sized, FALSE)}
        ELSE IF ~countOk THEN {Asserted(counted, FALSE)}
        ELSE {IF r.trapped THEN Asserted(counted, FALSE)
              ELSE Asserted([counted EXCEPT !.nSigOpCostWithAncestors = r.value],
                            ~AsInt(r.value).neg) :
                  r \in AddInt64(counted.nSigOpCostWithAncestors, modifySigOps)}

\* The entries, and the arguments of the calls.
SaturationSizes == {Signed(100), Int64Max}
SaturationFees == {Pair(Signed(1000), Signed(7)), Pair(Int64Max, Signed(7))}
SaturationSigOps == {Signed(4), Int64Max}
SizeDeltas == {Signed(1), Signed(-100)}
FeeDeltas == {Pair(Signed(1), SignedZero), Pair(SignedZero, Int64Max),
              Pair(Signed(-1000), Signed(-7))}
CountDeltas == {Signed(1), Signed(-1)}
SigOpDeltas == {Signed(4), Signed(-4)}

NoCall == [name |-> "none"]

InitSaturation ==
    /\ ConversionIdle
    /\ PoolIdle
    /\ AssemblerIdle
    /\ amt = [pc |-> "idle"]
    /\ mining = NoMining
    /\ wide \in {[pc |-> "entry", e |-> SaturationEntry(size, fees, sigOpCost),
                  calls |-> 0, call |-> NoCall] :
                    size \in SaturationSizes, fees \in SaturationFees,
                    sigOpCost \in SaturationSigOps}

SaturationCallable ==
    /\ wide.pc = "entry"
    /\ ~wide.e.aborted
    /\ wide.calls < MaxStateUpdates

WideUpdateModifiedFeeCall ==
    /\ SaturationCallable
    /\ \E fee_diff \in {d[CASH] : d \in FeeDeltas} \cup {Int64Max} :
          wide' = [wide EXCEPT !.calls = @ + 1,
                               !.e = WideUpdateModifiedFee(@, fee_diff),
                               !.call = [name |-> "UpdateModifiedFee",
                                         fee_diff |-> fee_diff]]
    /\ UNCHANGED <<convVars, poolVars, asmVars, amt, mining>>

WideUpdateDescendantStateCall ==
    /\ SaturationCallable
    /\ \E modifySize \in SizeDeltas, modifyFee \in FeeDeltas, modifyCount \in CountDeltas :
          wide' = [wide EXCEPT
                      !.calls = @ + 1,
                      !.e = WideUpdateDescendantState(@, modifySize, modifyFee, modifyCount),
                      !.call = [name |-> "UpdateDescendantState",
                                modifySize |-> modifySize, modifyFee |-> modifyFee,
                                modifyCount |-> modifyCount]]
    /\ UNCHANGED <<convVars, poolVars, asmVars, amt, mining>>

WideUpdateAncestorStateCall ==
    /\ SaturationCallable
    /\ \E modifySize \in SizeDeltas, modifyFee \in FeeDeltas, modifyCount \in CountDeltas,
          modifySigOps \in SigOpDeltas :
          \E after \in WideUpdateAncestorState(wide.e, modifySize, modifyFee, modifyCount,
                                               modifySigOps) :
              wide' = [wide EXCEPT
                          !.calls = @ + 1,
                          !.e = after,
                          !.call = [name |-> "UpdateAncestorState",
                                    modifySize |-> modifySize, modifyFee |-> modifyFee,
                                    modifyCount |-> modifyCount,
                                    modifySigOps |-> modifySigOps]]
    /\ UNCHANGED <<convVars, poolVars, asmVars, amt, mining>>

NextSaturation ==
    \/ WideUpdateModifiedFeeCall
    \/ WideUpdateDescendantStateCall
    \/ WideUpdateAncestorStateCall

SpecSaturation == InitSaturation /\ [][NextSaturation]_vars

\* v clamped to the range of uint64_t, and to that of int64_t.
ClampUint64(v) ==
    IF v.neg THEN SignedZero ELSE IF SignedLess(Uint64Max, v) THEN Uint64Max ELSE v
ClampInt64(v) ==
    IF SignedLess(v, Int64Min) THEN Int64Min
    ELSE IF SignedLess(Int64Max, v) THEN Int64Max ELSE v
ClampedFees(fees, modifyFee) ==
    Pair(ClampInt64(SignedAdd(fees[CASH], modifyFee[CASH])),
         ClampInt64(SignedAdd(fees[BOND], modifyFee[BOND])))

\* C38: UpdateModifiedFee, UpdateDescendantState and UpdateAncestorState
\* leave every aggregate they update (size, per-currency fee, count, sigop
\* cost) at the sum clamped to the range of its type, and none of them aborts.
C38_AggregatesSaturate ==
    [][wide'.pc = "entry" /\ wide.pc = "entry" /\ wide'.calls = wide.calls + 1 =>
          LET e == wide.e
              f == wide'.e
              c == wide'.call
          IN  /\ ~f.aborted
              /\ c.name = "UpdateModifiedFee" =>
                    /\ f.m_all_modified_fees[CASH]
                           = ClampInt64(SignedAdd(e.m_all_modified_fees[CASH], c.fee_diff))
                    /\ f.nModAllFeesWithDescendants[CASH]
                           = ClampInt64(SignedAdd(e.nModAllFeesWithDescendants[CASH], c.fee_diff))
                    /\ f.nModAllFeesWithAncestors[CASH]
                           = ClampInt64(SignedAdd(e.nModAllFeesWithAncestors[CASH], c.fee_diff))
              /\ c.name = "UpdateDescendantState" =>
                    /\ f.nSizeWithDescendants
                           = ClampUint64(SignedAdd(e.nSizeWithDescendants, c.modifySize))
                    /\ f.nCountWithDescendants
                           = ClampUint64(SignedAdd(e.nCountWithDescendants, c.modifyCount))
                    /\ f.nModAllFeesWithDescendants
                           = ClampedFees(e.nModAllFeesWithDescendants, c.modifyFee)
              /\ c.name = "UpdateAncestorState" =>
                    /\ f.nSizeWithAncestors
                           = ClampUint64(SignedAdd(e.nSizeWithAncestors, c.modifySize))
                    /\ f.nCountWithAncestors
                           = ClampUint64(SignedAdd(e.nCountWithAncestors, c.modifyCount))
                    /\ f.nModAllFeesWithAncestors
                           = ClampedFees(e.nModAllFeesWithAncestors, c.modifyFee)
                    /\ f.nSigOpCostWithAncestors
                           = ClampInt64(SignedAdd(e.nSigOpCostWithAncestors, c.modifySigOps))]_vars

(***************************************************************************)
(* CalculateInputAmount and the CalculateOutputAmount of what it returns   *)
(* (SpecInverse).                                                          *)
(***************************************************************************)
\* The supplies and the output amounts asked for.
InverseSupplies == {<<>>, Wide(3), Wide(4), Wide(1000000000), MAX_MONEY, INT64_MAX}
InverseAmounts ==
    {<<>>, Wide(1), Wide(2), Wide(100000000), MAX_MONEY, WideDiv(INT64_MAX, Wide(4))}

InitInverse ==
    /\ ConversionIdle
    /\ PoolIdle
    /\ AssemblerIdle
    /\ amt = [pc |-> "idle"]
    /\ mining = NoMining
    /\ wide \in {[pc |-> "call", totalSupply |-> Pair(c, b), outputAmount |-> a,
                  outputType |-> t, inputAmount |-> <<>>, result |-> <<>>] :
                    c \in InverseSupplies, b \in InverseSupplies, a \in InverseAmounts,
                    t \in AmountTypes}

\* a = CalculateInputAmount(totalSupply, outputAmount, outputType)
CallCalculateInputAmount ==
    /\ wide.pc = "call"
    /\ wide' = [wide EXCEPT
                   !.pc = "input",
                   !.inputAmount = WideCalculateInputAmount(wide.totalSupply,
                                       wide.outputAmount, wide.outputType)]
    /\ UNCHANGED <<convVars, poolVars, asmVars, amt, mining>>

\* CalculateOutputAmount(totalSupply, a, !outputType)
CallCalculateOutputAmountOfInput ==
    /\ wide.pc = "input"
    /\ wide' = [wide EXCEPT
                   !.pc = "output",
                   !.result = WideCalculateOutputAmount(wide.totalSupply, wide.inputAmount,
                                                        Other(wide.outputType))]
    /\ UNCHANGED <<convVars, poolVars, asmVars, amt, mining>>

NextInverse == CallCalculateInputAmount \/ CallCalculateOutputAmountOfInput

SpecInverse == InitInverse /\ [][NextInverse]_vars

\* (supply[outputType] + b)^2 <= cash^2 + bond^2
OutputWithinInvariant ==
    LET grown == WideAdd(wide.totalSupply[wide.outputType], wide.outputAmount)
    IN  WideLessEq(WideMul(grown, grown), WideInvariantSq(wide.totalSupply))

\* C39: for a non-negative supply and an output amount b >= 0 with
\* (supply[outputType] + b)^2 <= cash^2 + bond^2, the input
\* a = CalculateInputAmount(supply, b, outputType) is between 0 and the supply
\* of the other type, and CalculateOutputAmount(supply, a, other type) >= b.
C39_InputAmountSufficient ==
    (wide.pc = "output" /\ OutputWithinInvariant) =>
        /\ WideLessEq(wide.inputAmount, wide.totalSupply[Other(wide.outputType)])
        /\ WideLessEq(wide.outputAmount, wide.result)


\* supply[outputType] + b is a CAmount.
OutputRepresentable ==
    WideLessEq(WideAdd(wide.totalSupply[wide.outputType], wide.outputAmount), INT64_MAX)

\* C39, for the supplies and amounts whose sum is a CAmount: where
\* supply[outputType] + b <= INT64_MAX and (supply[outputType] + b)^2 <=
\* cash^2 + bond^2, a = CalculateInputAmount(supply, b, outputType) is between
\* 0 and the supply of the other type, and CalculateOutputAmount(supply, a,
\* other type) >= b.
C39_InputAmountSufficientWhenRepresentable ==
    (wide.pc = "output" /\ OutputWithinInvariant /\ OutputRepresentable) =>
        /\ WideLessEq(wide.inputAmount, wide.totalSupply[Other(wide.outputType)])
        /\ WideLessEq(wide.outputAmount, wide.result)

\* Both calls have returned for an output amount above 0 that is within the
\* invariant and representable, with an input above 0 that is not a whole
\* supply and gives more than was asked for.
C39_Witness ==
    /\ wide.pc = "output"
    /\ OutputWithinInvariant
    /\ OutputRepresentable
    /\ wide.outputAmount # <<>>
    /\ wide.inputAmount # <<>>
    /\ WideLess(wide.inputAmount, wide.totalSupply[Other(wide.outputType)])
    /\ WideLess(wide.outputAmount, wide.result)

(***************************************************************************)
(* StartMining, StopMining and the miner threads (SpecMining).  The vector *)
(* minerThreads of the file and the static vector of the same name that    *)
(* StartMining declares are two vectors.                                   *)
(***************************************************************************)
MaxMinerThreads == 4
MaxMiningCalls == 3
GetNumCores == 2

\* nThreads as StartMining is called with it.
MiningThreadCounts == {-1, 0, 1, 2}

RunningThreads(M) == {t \in DOMAIN M.threads : M.threads[t] = "running"}

InitMining ==
    /\ ConversionIdle
    /\ PoolIdle
    /\ AssemblerIdle
    /\ AmountIdle

\* StartMining(context, nThreads, pwallet) up to its call of StopMining.
StartMiningCall ==
    /\ mining.pc = "idle"
    /\ mining.calls < MaxMiningCalls
    /\ \E nThreads \in MiningThreadCounts :
          LET n == IF nThreads < 0 THEN GetNumCores ELSE nThreads
          IN  /\ Cardinality(DOMAIN mining.threads) + n <= MaxMinerThreads
              /\ mining' = [mining EXCEPT !.pc = "StopMining", !.caller = "StartMining",
                                          !.nThreads = n, !.calls = @ + 1]
    /\ UNCHANGED <<convVars, poolVars, asmVars, amt, wide>>

\* StopMining() is called from elsewhere.
StopMiningCall ==
    /\ mining.pc = "idle"
    /\ mining.calls < MaxMiningCalls
    /\ mining' = [mining EXCEPT !.pc = "StopMining", !.caller = "none", !.calls = @ + 1]
    /\ UNCHANGED <<convVars, poolVars, asmVars, amt, wide>>

\* fRequestStopMining = true;
StopMiningRequest ==
    /\ mining.pc = "StopMining"
    /\ mining' = [mining EXCEPT !.fRequestStopMining = TRUE, !.pc = "join"]
    /\ UNCHANGED <<convVars, poolVars, asmVars, amt, wide>>

\* for (auto& t: minerThreads) t.join(); minerThreads.clear(); and the return
\* of StopMining.  join returns once the thread has ended.
StopMiningJoin ==
    /\ mining.pc = "join"
    /\ \A k \in DOMAIN mining.minerThreads :
          mining.threads[mining.minerThreads[k]] = "finished"
    /\ mining' = [mining EXCEPT !.minerThreads = <<>>,
                                !.pc = IF mining.caller = "StartMining" THEN "spawn"
                                       ELSE "idle"]
    /\ UNCHANGED <<convVars, poolVars, asmVars, amt, wide>>

\* StartMining from the return of StopMining on: the threads go into the
\* static vector of StartMining.
StartMiningSpawn ==
    /\ mining.pc = "spawn"
    /\ IF mining.nThreads = 0
       THEN mining' = [mining EXCEPT !.pc = "idle"]
       ELSE LET first == Cardinality(DOMAIN mining.threads) + 1
                started == first..(first + mining.nThreads - 1)
            IN  mining' = [mining EXCEPT
                              !.fRequestStopMining = FALSE,
                              !.StartMining_minerThreads =
                                  @ \o [k \in 1..mining.nThreads |-> first + k - 1],
                              !.threads = [t \in (DOMAIN @) \cup started |->
                                              IF t \in started THEN "running" ELSE @[t]],
                              !.pc = "idle"]
    /\ UNCHANGED <<convVars, poolVars, asmVars, amt, wide>>

\* BitcoinMiner reads fRequestStopMining as set and returns.
BitcoinMinerStops ==
    /\ mining.fRequestStopMining
    /\ \E t \in RunningThreads(mining) :
          mining' = [mining EXCEPT !.threads[t] = "finished"]
    /\ UNCHANGED <<convVars, poolVars, asmVars, amt, wide>>

\* BitcoinMiner returns of its own: a runtime_error, or a block found where
\* blocks are mined on demand.
BitcoinMinerReturns ==
    /\ ~mining.fRequestStopMining
    /\ \E t \in RunningThreads(mining) :
          mining' = [mining EXCEPT !.threads[t] = "finished"]
    /\ UNCHANGED <<convVars, poolVars, asmVars, amt, wide>>

NextMining ==
    \/ StartMiningCall
    \/ StopMiningCall
    \/ StopMiningRequest
    \/ StopMiningJoin
    \/ StartMiningSpawn
    \/ BitcoinMinerStops
    \/ BitcoinMinerReturns

SpecMining == InitMining /\ [][NextMining]_vars

\* C40: when StopMining returns every miner thread an earlier StartMining
\* started has been joined and has ended, and so when StartMining(n) returns
\* at most n miner threads are running, however often StartMining was called
\* before.
C40_StopMiningJoinsEveryThread ==
    [][/\ (mining.pc = "join" /\ mining'.pc # "join") =>
              RunningThreads(mining') = {}
       /\ (mining.pc = "spawn" /\ mining'.pc = "idle") =>
              Cardinality(RunningThreads(mining')) <= mining.nThreads]_vars

====
